---- MODULE Spec2Model ----
(***************************************************************************)
(* A model of the LLM-OS kernel: the task scheduler, the capability token  *)
(* system, per-app storage, the container process manager and the WASM     *)
(* sandbox.  Every subsystem is a group of variables with its own actions  *)
(* and its own specification (SchedSpec, CapSpec, ...); the other groups   *)
(* stay at their initial value under that specification.                   *)
(***************************************************************************)
EXTENDS Integers, Sequences, FiniteSets, TLC

VARIABLES
  \* ---- scheduler (src/src/kernel/scheduler.js)
  tasks,          \* ids registered in the tasks Map
  timer,          \* id -> entry.timer is an armed interval
  taskState,      \* id -> state.tasks[id]
  paused,         \* state.paused
  running,        \* the concurrency lock
  runningTaskId,
  idleTicks,      \* time since lastActivity, in units of deferMs, capped
  handlers,       \* id -> number of handler invocations not yet settled
  startedBy,      \* id -> who started the unsettled invocation
  throwStreak,    \* id -> executions in a row whose handler threw (history)
  schedRet,       \* what runNow returned in the last step ("none": no return)
  universe,       \* the ids the server has definitions for
  runLimit,       \* how many executions the environment starts
  leaked,         \* id -> armed intervals of entries registerTask replaced
  \* ---- capability tokens (src/src/kernel/capabilities.js)
  hmacKey,        \* _hmacKey: NoKey until initTokenKey
  appCaps,        \* appId -> granted capability set
  appTokenMap,    \* appId -> token list of the latest grant
  revocationSet,  \* revoked nonces
  issued,         \* every token a grant has returned (history)
  now,            \* Math.floor(Date.now() / 1000), in clock steps
  nextNonce,      \* the next fresh nonce
  grantCall,      \* the grantCapabilities call in progress
  \* ---- per-app storage (src/unnamed/part_010)
  cache,          \* appId -> [data, dirty], the loaded stores
  cacheOrder,     \* the keys of cache in insertion order
  disk,           \* directory -> contents of its store.json
  writeTimers,    \* appIds with a debounce timer in the writeTimers Map
  stray,          \* appId -> armed timeouts no longer in the writeTimers Map
  storeRet,       \* what the last storage call returned
  clients,        \* the appIds storage is called with
  keyspace,       \* the keys storage is called with
  \* ---- container process manager (src/src/kernel/docker/process-manager.js)
  allocatedPorts, \* the Set of host ports in use
  processes,      \* appId -> ProcessInfo of the tracked container
  launching,      \* the launchContainer calls waiting on the engine
  stopping,       \* the stopContainer calls waiting on the engine
  containers,     \* the containers that exist at the engine
  nextCall,       \* number of the next launchContainer or stopContainer call
  dockerRet,      \* how the call that ended in the last step ended
  infoStatus,     \* containerId -> the status field of its ProcessInfo object
  checks,         \* the healthCheck calls waiting on the engine
  timers,         \* the armed timeouts of the launches
  dockerClients,  \* the appIds the environment launches
  callLimit,      \* how many process-manager calls the environment makes
  \* ---- WASM sandbox (src/unnamed/part_004, src/src/kernel/wasm-sandbox/worker.js)
  apps,           \* appId -> the launch whose entry is in this.apps
  launches,       \* launch -> its entry, worker, CPU timer and promise
  wasmRet,        \* what the launch or kill call of the last step returned
  tenants,        \* the appIds the sandbox is called with
  catalog,        \* the programs the sandbox is called with
  launchLimit,    \* how many apps the environment launches
  \* ---- registry and server (src/src/kernel/registry/store.js, src/unnamed/part_002)
  registry,       \* hash -> AppEntry, the apps Map of the registry
  images,         \* the recipes an image was built from
  serverRet,      \* what the last request or call returned
  registryFile,   \* the entries of registry.json
  sync,           \* the position of the running syncCommunity call
  \* ---- LLM gateway (src/src/kernel/gateway.js)
  routing,        \* config.routing: the primary and the fallback provider
  available,      \* the providers whose isAvailable answers true
  generation,     \* the generate call waiting on a provider
  gatewayRet,     \* how the last generate call ended
  \* ---- OS profile (src/src/kernel/profile.js)
  profileFile,    \* data/profile.yaml: absent, or the value of its mode line
  exampleFile,    \* data/profile.example.yaml, likewise
  cachedProfile,  \* _profile: the mode of the cached profile, or "null"
  snapshot,       \* the files under data/snapshot
  profileRet,     \* what the last call of the module returned
  exitLog,        \* the calls the SIGINT / SIGTERM handler has made
  appResults,     \* appId -> the generation result the app was granted from
  \* ---- a function under test
  input,          \* the input the environment chose
  output          \* the result of the function, once applied

schedVars == <<tasks, timer, taskState, paused, running,
               runningTaskId, idleTicks, handlers, startedBy, throwStreak,
               schedRet, universe, runLimit, leaked>>

capVars == <<hmacKey, appCaps, appTokenMap, revocationSet, issued, now,
             nextNonce, grantCall>>

storeVars == <<cache, cacheOrder, disk, writeTimers, stray, storeRet,
               clients, keyspace>>

dockerVars == <<allocatedPorts, processes, launching, stopping, containers,
                nextCall, dockerRet,
               infoStatus, checks, timers, dockerClients, callLimit>>

wasmVars == <<apps, launches, wasmRet, tenants, catalog, launchLimit>>

gatewayVars == <<routing, available, generation, gatewayRet>>

profileVars == <<profileFile, exampleFile, cachedProfile, snapshot, profileRet>>

serverVars == <<registry, images, serverRet, registryFile, sync, gatewayVars,
                profileVars, exitLog, appResults>>

labVars == <<input, output>>

vars == <<schedVars, capVars, storeVars, dockerVars, wasmVars, serverVars,
          labVars>>

-----------------------------------------------------------------------------
(* Scheduler *)

TaskIds == {"t1", "t2"}
\* definition.requiresLLM of each registered definition
RequiresLLM == {"t2"}

CIRCUIT_BREAKER_THRESHOLD == 3
MAX_HISTORY == 20
\* config.scheduler.dailyBudget (SCHEDULER_DAILY_BUDGET)
DailyBudget == 1
\* executions started over a run of the model, with every task registered
MaxRuns == 2
\* executions started over a run of the model, with one task registered
MaxSoloRuns == 4
\* executions started over a run of the model, with a task registered again
MaxPauseRuns == 1
\* executions started over a run of the model, with every handler counting
MaxBudgetRuns == 2
\* executions started over a run of the model, behind the HTTP server
MaxApiRuns == 1
\* intervals of one task that no entry refers to any more
MaxLeaked == 1
\* trackLLMCall calls past the budget that one day may see
MaxOverBudget == 1

NoTask == "null"
\* how an awaited handler can settle
Outcomes == {"object", "nullish", "throw", "throwNullish"}

\* getTaskState: the record created for an id that has none
DefaultTaskState ==
  [enabled |-> FALSE, nextRun |-> FALSE, runCount |-> 0, successCount |-> 0,
   errorCount |-> 0, consecutiveErrors |-> 0, disabledReason |-> "null",
   llmCallsToday |-> 0, staleDate |-> FALSE, lastResult |-> "null",
   lastError |-> FALSE, history |-> <<>>]

\* resetDailyBudget: a counter of another date restarts at 0
resetDailyBudget(ts) ==
  IF ts.staleDate THEN [ts EXCEPT !.llmCallsToday = 0, !.staleDate = FALSE] ELSE ts

\* history.unshift(e); if longer than MAX_HISTORY, history.pop()
pushHistory(h, e) ==
  LET h2 == <<e>> \o h
  IN IF Len(h2) > MAX_HISTORY THEN SubSeq(h2, 1, Len(h2) - 1) ELSE h2

RECURSIVE SumOver(_, _)
SumOver(f, S) ==
  IF S = {} THEN 0
  ELSE LET x == CHOOSE y \in S : TRUE IN f[x] + SumOver(f, S \ {x})

Started == SumOver([t \in TaskIds |-> taskState[t].runCount], TaskIds)
             + SumOver(handlers, TaskIds)

SchedInit ==
  /\ tasks = {}
  /\ timer = [t \in TaskIds |-> FALSE]
  /\ taskState = [t \in TaskIds |-> DefaultTaskState]
  /\ paused = FALSE
  /\ running = FALSE
  /\ runningTaskId = NoTask
  /\ idleTicks = 1
  /\ handlers = [t \in TaskIds |-> 0]
  /\ startedBy = [t \in TaskIds |-> "none"]
  /\ throwStreak = [t \in TaskIds |-> 0]
  /\ schedRet = "none"
  /\ universe = TaskIds
  /\ runLimit = MaxRuns
  /\ leaked = [t \in TaskIds |-> 0]

\* the same scheduler with a single definition, run for longer
SoloInit ==
  /\ tasks = {}
  /\ timer = [t \in TaskIds |-> FALSE]
  /\ taskState = [t \in TaskIds |-> DefaultTaskState]
  /\ paused = FALSE
  /\ running = FALSE
  /\ runningTaskId = NoTask
  /\ idleTicks = 1
  /\ handlers = [t \in TaskIds |-> 0]
  /\ startedBy = [t \in TaskIds |-> "none"]
  /\ throwStreak = [t \in TaskIds |-> 0]
  /\ schedRet = "none"
  /\ universe = RequiresLLM
  /\ runLimit = MaxSoloRuns
  /\ leaked = [t \in TaskIds |-> 0]

\* one task, which may be registered again
PauseInit ==
  /\ tasks = {}
  /\ timer = [t \in TaskIds |-> FALSE]
  /\ taskState = [t \in TaskIds |-> DefaultTaskState]
  /\ paused = FALSE
  /\ running = FALSE
  /\ runningTaskId = NoTask
  /\ idleTicks = 1
  /\ handlers = [t \in TaskIds |-> 0]
  /\ startedBy = [t \in TaskIds |-> "none"]
  /\ throwStreak = [t \in TaskIds |-> 0]
  /\ schedRet = "none"
  /\ universe = RequiresLLM
  /\ runLimit = MaxPauseRuns
  /\ leaked = [t \in TaskIds |-> 0]

\* every task registered, the handlers of all of them counting LLM calls
BudgetInit ==
  /\ tasks = {}
  /\ timer = [t \in TaskIds |-> FALSE]
  /\ taskState = [t \in TaskIds |-> DefaultTaskState]
  /\ paused = FALSE
  /\ running = FALSE
  /\ runningTaskId = NoTask
  /\ idleTicks = 1
  /\ handlers = [t \in TaskIds |-> 0]
  /\ startedBy = [t \in TaskIds |-> "none"]
  /\ throwStreak = [t \in TaskIds |-> 0]
  /\ schedRet = "none"
  /\ universe = TaskIds
  /\ runLimit = MaxBudgetRuns
  /\ leaked = [t \in TaskIds |-> 0]

\* the scheduler behind the HTTP server
ApiInit ==
  /\ tasks = {}
  /\ timer = [t \in TaskIds |-> FALSE]
  /\ taskState = [t \in TaskIds |-> DefaultTaskState]
  /\ paused = FALSE
  /\ running = FALSE
  /\ runningTaskId = NoTask
  /\ idleTicks = 1
  /\ handlers = [t \in TaskIds |-> 0]
  /\ startedBy = [t \in TaskIds |-> "none"]
  /\ throwStreak = [t \in TaskIds |-> 0]
  /\ schedRet = "none"
  /\ universe = TaskIds
  /\ runLimit = MaxApiRuns
  /\ leaked = [t \in TaskIds |-> 0]

\* registerTask(definition), of an id not registered yet (the server registers
\* each definition once, at startup or later)
registerTask(id) ==
  /\ id \in universe
  /\ (id \in tasks /\ timer[id]) => leaked[id] < MaxLeaked
  /\ leaked' = [leaked EXCEPT ![id] = IF id \in tasks /\ timer[id]
                                        THEN @ + 1 ELSE @]
  /\ tasks' = tasks \cup {id}
  /\ IF taskState[id].enabled /\ ~paused
       THEN /\ timer' = [timer EXCEPT ![id] = TRUE]
            /\ taskState' = [taskState EXCEPT ![id].nextRun = TRUE]
       ELSE /\ timer' = [timer EXCEPT ![id] = FALSE]
            /\ UNCHANGED taskState
  /\ UNCHANGED <<paused, running, runningTaskId, idleTicks, handlers, startedBy, throwStreak>>
  /\ schedRet' = "none"

\* enableTask(id, interval)
enableTask(id) ==
  /\ id \in tasks
  /\ taskState' = [taskState EXCEPT ![id].enabled = TRUE,
                                    ![id].consecutiveErrors = 0,
                                    ![id].disabledReason = "null",
                                    ![id].nextRun = TRUE]
  /\ timer' = [timer EXCEPT ![id] = TRUE]
  /\ throwStreak' = [throwStreak EXCEPT ![id] = 0]
  /\ UNCHANGED <<tasks, paused, running, runningTaskId, handlers, startedBy>>
  /\ schedRet' = "none"

\* disableTask(id)
disableTask(id) ==
  /\ id \in tasks
  /\ taskState' = [taskState EXCEPT ![id].enabled = FALSE, ![id].nextRun = FALSE]
  /\ timer' = [timer EXCEPT ![id] = FALSE]
  /\ UNCHANGED <<tasks, paused, running, runningTaskId, handlers, startedBy, throwStreak>>
  /\ schedRet' = "none"

\* the head of executeTask, up to the await of the handler
beginExecute(id, by) ==
  /\ running' = TRUE
  /\ runningTaskId' = id
  /\ handlers' = [handlers EXCEPT ![id] = @ + 1]
  /\ startedBy' = [startedBy EXCEPT ![id] = by]

\* tick's guards with the concurrency lock left out
tickGuardsNoLock(id) ==
  /\ id \in tasks
  /\ ~paused
  /\ taskState[id].enabled
  /\ idleTicks >= 1
  /\ taskState[id].consecutiveErrors < CIRCUIT_BREAKER_THRESHOLD

\* the guards of tick(id), in the order of the code
tickGuards(id) ==
  /\ id \in tasks
  /\ ~paused
  /\ taskState[id].enabled
  /\ idleTicks >= 1
  /\ ~running
  /\ taskState[id].consecutiveErrors < CIRCUIT_BREAKER_THRESHOLD

\* the daily-budget guard applied whatever definition.requiresLLM says
budgetLeftOfAny(id) ==
  ~(resetDailyBudget(taskState[id]).llmCallsToday >= DailyBudget)

\* the daily-budget guard shared by tick and runNow (after resetDailyBudget)
budgetLeft(id) ==
  ~(id \in RequiresLLM /\ resetDailyBudget(taskState[id]).llmCallsToday >= DailyBudget)

\* tick(id): an interval of the task fires and every guard passes
tick(id) ==
  /\ timer[id] \/ leaked[id] > 0
  /\ Started < runLimit
  /\ handlers[id] < 2
  /\ tickGuards(id)
  /\ budgetLeft(id)
  /\ taskState' = [taskState EXCEPT ![id] = resetDailyBudget(@)]
  /\ beginExecute(id, "tick")
  /\ UNCHANGED <<tasks, timer, paused, idleTicks, throwStreak>>
  /\ schedRet' = "none"

\* runNow(id)
runNow(id) ==
  IF id \notin tasks
    THEN /\ schedRet' = "unknown"
         /\ UNCHANGED <<tasks, timer, taskState, paused, running,
                        runningTaskId, handlers, startedBy, throwStreak>>
  ELSE IF running
    THEN /\ schedRet' = "busy"
         /\ UNCHANGED <<tasks, timer, taskState, paused, running,
                        runningTaskId, handlers, startedBy, throwStreak>>
  ELSE IF ~budgetLeft(id)
    THEN /\ schedRet' = "budget"
         /\ taskState' = [taskState EXCEPT ![id] = resetDailyBudget(@)]
         /\ UNCHANGED <<tasks, timer, paused, running,
                        runningTaskId, handlers, startedBy, throwStreak>>
  ELSE /\ Started < runLimit
       /\ handlers[id] < 2
       /\ schedRet' = "pending"
       /\ taskState' = [taskState EXCEPT ![id] = resetDailyBudget(@)]
       /\ beginExecute(id, "runNow")
       /\ UNCHANGED <<tasks, timer, paused, throwStreak>>

\* context.trackLLMCall(), called by a running handler
trackLLMCall(id) ==
  /\ handlers[id] > 0
  /\ resetDailyBudget(taskState[id]).llmCallsToday < DailyBudget + MaxOverBudget
  /\ taskState' = [taskState EXCEPT
        ![id] = [resetDailyBudget(@) EXCEPT !.llmCallsToday = @ + 1]]
  /\ UNCHANGED <<tasks, timer, paused, running, runningTaskId,
                 idleTicks, handlers, startedBy, throwStreak>>
  /\ schedRet' = "none"

\* the try block of executeTask once the handler has returned `result`
\* ("object": anything `.stats` can be read from; "nullish": null or undefined,
\* on which reading result.stats throws a TypeError inside the try)
onReturn(ts, result) ==
  LET s1 == [ts EXCEPT !.consecutiveErrors = 0,
                       !.successCount = @ + 1,
                       !.lastResult = result,
                       !.lastError = FALSE]
  IN IF result = "object"
       THEN [thrown |-> FALSE, ts |-> [s1 EXCEPT !.history = pushHistory(@, TRUE)]]
       ELSE [thrown |-> TRUE, ts |-> s1]

\* the catch block with the breaker comparing by > instead of >=
onThrowLate(ts) ==
  LET s1 == [ts EXCEPT !.consecutiveErrors = @ + 1,
                       !.errorCount = @ + 1,
                       !.lastError = TRUE,
                       !.lastResult = "null",
                       !.history = pushHistory(@, FALSE)]
  IN IF s1.consecutiveErrors > CIRCUIT_BREAKER_THRESHOLD
       THEN [tripped |-> TRUE,
             ts |-> [s1 EXCEPT !.enabled = FALSE,
                               !.disabledReason = "circuit-breaker",
                               !.nextRun = FALSE]]
       ELSE [tripped |-> FALSE, ts |-> s1]

\* the catch block of executeTask
onThrow(ts) ==
  LET s1 == [ts EXCEPT !.consecutiveErrors = @ + 1,
                       !.errorCount = @ + 1,
                       !.lastError = TRUE,
                       !.lastResult = "null",
                       !.history = pushHistory(@, FALSE)]
  IN IF s1.consecutiveErrors >= CIRCUIT_BREAKER_THRESHOLD
       THEN [tripped |-> TRUE,
             ts |-> [s1 EXCEPT !.enabled = FALSE,
                               !.disabledReason = "circuit-breaker",
                               !.nextRun = FALSE]]
       ELSE [tripped |-> FALSE, ts |-> s1]

\* the finally block of executeTask
onFinally(ts) ==
  [ts EXCEPT !.runCount = @ + 1, !.nextRun = ts.enabled]

\* the catch block when the handler threw or rejected with null or undefined:
\* reading err.message throws a TypeError after the two counters were
\* incremented, so the rest of the block is skipped
onThrowNullish(ts) ==
  [tripped |-> FALSE,
   ts |-> [ts EXCEPT !.consecutiveErrors = @ + 1, !.errorCount = @ + 1]]

\* the rest of executeTask: the awaited handler settles with `outcome`
\* ("object" | "nullish" returned; "throw": an Error thrown or rejected with;
\* "throwNullish": null or undefined thrown or rejected with).  The TypeError
\* of the catch block leaves executeTask after the finally block: runNow
\* rejects ("rejected"), and the promise of a timer tick is rejected with
\* nobody handling it ("unhandled")
settle(id, outcome) ==
  /\ handlers[id] > 0
  /\ LET r == IF outcome \in {"throw", "throwNullish"}
                THEN [thrown |-> TRUE, ts |-> taskState[id]]
                ELSE onReturn(taskState[id], outcome)
         c == IF ~r.thrown THEN [tripped |-> FALSE, ts |-> r.ts]
              ELSE IF outcome = "throwNullish" THEN onThrowNullish(r.ts)
              ELSE onThrow(r.ts)
     IN /\ taskState' = [taskState EXCEPT ![id] = onFinally(c.ts)]
        /\ timer' = IF c.tripped THEN [timer EXCEPT ![id] = FALSE] ELSE timer
        /\ schedRet' = IF outcome = "throwNullish"
                         THEN (IF startedBy[id] = "runNow" THEN "rejected"
                                                           ELSE "unhandled")
                       ELSE IF startedBy[id] # "runNow" THEN "none"
                       ELSE IF r.thrown THEN "failed" ELSE "resolved"
  /\ running' = FALSE
  /\ runningTaskId' = NoTask
  /\ handlers' = [handlers EXCEPT ![id] = @ - 1]
  /\ startedBy' = [startedBy EXCEPT ![id] = "none"]
  /\ throwStreak' = [throwStreak EXCEPT
        ![id] = IF outcome \in {"throw", "throwNullish"} THEN @ + 1 ELSE 0]
  /\ UNCHANGED <<tasks, paused, idleTicks>>

\* recordActivity()
recordActivity ==
  /\ idleTicks' = 0
  /\ UNCHANGED <<tasks, timer, taskState, paused, running,
                 runningTaskId, handlers, startedBy, throwStreak>>
  /\ schedRet' = "none"

\* deferMs passes without an API request
deferElapses ==
  /\ idleTicks = 0
  /\ idleTicks' = 1
  /\ UNCHANGED <<tasks, timer, taskState, paused, running,
                 runningTaskId, handlers, startedBy, throwStreak>>
  /\ schedRet' = "none"

\* the calendar date changes: every llmCallsDate is now another day's
dateChanges ==
  /\ \E t \in TaskIds : ~taskState[t].staleDate /\ taskState[t].llmCallsToday > 0
  /\ taskState' = [t \in TaskIds |-> [taskState[t] EXCEPT !.staleDate = TRUE]]
  /\ UNCHANGED <<tasks, timer, paused, running, runningTaskId,
                 idleTicks, handlers, startedBy, throwStreak>>
  /\ schedRet' = "none"

\* pause()
pause ==
  /\ paused' = TRUE
  /\ timer' = [t \in TaskIds |-> IF t \in tasks THEN FALSE ELSE timer[t]]
  /\ taskState' = [t \in TaskIds |->
        IF t \in tasks THEN [taskState[t] EXCEPT !.nextRun = FALSE] ELSE taskState[t]]
  /\ UNCHANGED <<tasks, running, runningTaskId, handlers, startedBy, throwStreak>>
  /\ schedRet' = "none"

\* resume()
resume ==
  /\ paused' = FALSE
  /\ timer' = [t \in TaskIds |->
        IF t \in tasks /\ taskState[t].enabled THEN TRUE ELSE timer[t]]
  /\ taskState' = [t \in TaskIds |->
        IF t \in tasks /\ taskState[t].enabled
          THEN [taskState[t] EXCEPT !.nextRun = TRUE] ELSE taskState[t]]
  /\ UNCHANGED <<tasks, running, runningTaskId, handlers, startedBy, throwStreak>>
  /\ schedRet' = "none"

\* resetCircuitBreaker(id)
resetCircuitBreaker(id) ==
  /\ taskState' = [taskState EXCEPT ![id].consecutiveErrors = 0,
                                    ![id].disabledReason = "null"]
  /\ throwStreak' = [throwStreak EXCEPT ![id] = 0]
  /\ UNCHANGED <<tasks, timer, paused, running, runningTaskId,
                 handlers, startedBy>>
  /\ schedRet' = "none"

SchedFrame ==
  UNCHANGED <<universe, runLimit, leaked, capVars, storeVars, dockerVars, wasmVars,
              serverVars, labVars>>

SchedNext ==
  \/ \E id \in TaskIds \ tasks : registerTask(id) /\ SchedFrame
  \/ \E id \in TaskIds : enableTask(id) /\ UNCHANGED idleTicks /\ SchedFrame
  \/ \E id \in TaskIds : disableTask(id) /\ UNCHANGED idleTicks /\ SchedFrame
  \/ \E id \in TaskIds : tick(id) /\ SchedFrame
  \/ \E id \in TaskIds : runNow(id) /\ UNCHANGED idleTicks /\ SchedFrame
  \/ \E id \in RequiresLLM : trackLLMCall(id) /\ SchedFrame
  \/ \E id \in TaskIds, o \in Outcomes : settle(id, o) /\ SchedFrame
  \/ \E id \in TaskIds : resetCircuitBreaker(id) /\ UNCHANGED idleTicks /\ SchedFrame
  \/ recordActivity /\ SchedFrame
  \/ deferElapses /\ SchedFrame
  \/ dateChanges /\ SchedFrame
  \/ pause /\ UNCHANGED idleTicks /\ SchedFrame
  \/ resume /\ UNCHANGED idleTicks /\ SchedFrame

\* the scheduler when the handlers of tasks without requiresLLM call
\* context.trackLLMCall() as well; nobody pauses, disables or calls the API
BudgetNext ==
  \/ \E id \in TaskIds \ tasks : registerTask(id) /\ SchedFrame
  \/ \E id \in TaskIds : enableTask(id) /\ UNCHANGED idleTicks /\ SchedFrame
  \/ \E id \in TaskIds : tick(id) /\ SchedFrame
  \/ \E id \in TaskIds : runNow(id) /\ UNCHANGED idleTicks /\ SchedFrame
  \/ \E id \in TaskIds : trackLLMCall(id) /\ SchedFrame
  \/ \E id \in TaskIds, o \in Outcomes : settle(id, o) /\ SchedFrame
  \/ dateChanges /\ SchedFrame

\* handleAPI without its call of scheduler.recordActivity()
handleAPIUntracked(dispatch) == dispatch /\ UNCHANGED idleTicks

\* handleAPI(method, fullUrl, body, res) up to the first await of the
\* endpoint: scheduler.recordActivity(), then the endpoint `dispatch`
handleAPI(dispatch) == idleTicks' = 0 /\ dispatch

\* the scheduler as the server runs it: the tasks are registered at startup,
\* every other call of the scheduler is made by an endpoint of handleAPI
\* (recordActivity alone: a request for an endpoint that leaves the scheduler
\* as it is)
ApiNext ==
  \/ \E id \in TaskIds \ tasks : registerTask(id) /\ SchedFrame
  \/ \E id \in TaskIds : handleAPI(enableTask(id)) /\ SchedFrame
  \/ \E id \in TaskIds : handleAPI(disableTask(id)) /\ SchedFrame
  \/ \E id \in TaskIds : handleAPI(runNow(id)) /\ SchedFrame
  \/ \E id \in TaskIds : handleAPI(resetCircuitBreaker(id)) /\ SchedFrame
  \/ handleAPI(pause) /\ SchedFrame
  \/ handleAPI(resume) /\ SchedFrame
  \/ recordActivity /\ SchedFrame
  \/ \E id \in TaskIds : tick(id) /\ SchedFrame
  \/ \E id \in RequiresLLM : trackLLMCall(id) /\ SchedFrame
  \/ \E id \in TaskIds, o \in Outcomes : settle(id, o) /\ SchedFrame
  \/ deferElapses /\ SchedFrame
  \/ dateChanges /\ SchedFrame

PauseFrame ==
  UNCHANGED <<universe, runLimit, capVars, storeVars, dockerVars, wasmVars,
              serverVars, labVars>>

\* the scheduler when the server may register a task it has registered
PauseNext ==
  \/ \E id \in TaskIds : registerTask(id) /\ PauseFrame
  \/ \E id \in TaskIds : enableTask(id) /\ UNCHANGED idleTicks /\ SchedFrame
  \/ \E id \in TaskIds : disableTask(id) /\ UNCHANGED idleTicks /\ SchedFrame
  \/ \E id \in TaskIds : tick(id) /\ SchedFrame
  \/ \E id \in TaskIds : runNow(id) /\ UNCHANGED idleTicks /\ SchedFrame
  \/ \E id \in RequiresLLM : trackLLMCall(id) /\ SchedFrame
  \/ \E id \in TaskIds, o \in Outcomes : settle(id, o) /\ SchedFrame
  \/ \E id \in TaskIds : resetCircuitBreaker(id) /\ UNCHANGED idleTicks /\ SchedFrame
  \/ recordActivity /\ SchedFrame
  \/ deferElapses /\ SchedFrame
  \/ dateChanges /\ SchedFrame
  \/ pause /\ UNCHANGED idleTicks /\ SchedFrame
  \/ resume /\ UNCHANGED idleTicks /\ SchedFrame

-----------------------------------------------------------------------------
(* Capability tokens (src/src/kernel/capabilities.js) *)

CAPABILITY_TYPES ==
  {"ui:window", "storage:local", "timer:basic", "clipboard:rw", "network:http",
   "process:background", "process:network", "process:volume", "api:anthropic"}

AppIds == {"a", "b"}
\* the capability lists the callers of grantCapabilities pass
Requests == {<<"ui:window">>, <<"ui:window", "storage:local">>,
             <<"bogus", "storage:local">>}

\* TOKEN_TTL_SECONDS, in steps of the model's clock
TtlTicks == 1
\* the clock stops here
MaxTime == 2
\* tokens signed over a run of the model
MaxTokens == 2

NoKey == 0
ProcessKey == 1
NoCall == [appId |-> "null", valid |-> <<>>, tokenList |-> <<>>]
\* a token string is its number of dot-separated segments and, for three
\* segments, the decoded payload fields and the signature
BlankPayload == [appId |-> "null", cap |-> "null", exp |-> 0, nonce |-> 0]
NoToken == [parts |-> 0, appId |-> "null", cap |-> "null", exp |-> 0, nonce |-> 0,
            sig |-> [key |-> 0, over |-> BlankPayload]]
Malformed == [NoToken EXCEPT !.parts = 1]

\* the payload segment of a token
payloadOf(t) == [appId |-> t.appId, cap |-> t.cap, exp |-> t.exp, nonce |-> t.nonce]

\* HMAC-SHA256 of header.payload under key k: equal exactly for equal key and input
hmac(k, p) == [key |-> k, over |-> p]

\* signToken(appId, cap): a fresh 128-bit nonce, exp = now + TTL
signToken(appId, cap) ==
  LET p == [appId |-> appId, cap |-> cap, exp |-> now + TtlTicks, nonce |-> nextNonce]
  IN [parts |-> 3, appId |-> appId, cap |-> cap, exp |-> p.exp, nonce |-> p.nonce,
      sig |-> hmac(hmacKey, p)]

\* valid = capabilities.filter(c => CAPABILITY_TYPES.includes(c))
RECURSIVE filterValid(_)
filterValid(req) ==
  IF req = <<>> THEN <<>>
  ELSE IF Head(req) \in CAPABILITY_TYPES
         THEN <<Head(req)>> \o filterValid(Tail(req))
         ELSE filterValid(Tail(req))

SeqRange(q) == {q[i] : i \in 1..Len(q)}

\* verifyToken with the expiry test written as >= (a token dies at now = exp)
verifyTokenEarly(t) ==
  IF hmacKey = NoKey THEN [valid |-> FALSE, error |-> "no_key"]
  ELSE IF t.parts # 3 THEN [valid |-> FALSE, error |-> "malformed"]
  ELSE IF t.sig # hmac(hmacKey, payloadOf(t))
    THEN [valid |-> FALSE, error |-> "invalid_signature"]
  ELSE IF now >= t.exp THEN [valid |-> FALSE, error |-> "expired"]
  ELSE IF t.nonce \in revocationSet THEN [valid |-> FALSE, error |-> "revoked"]
  ELSE [valid |-> TRUE, error |-> "null"]

\* verifyToken(tokenStr), evaluated when its awaited HMAC has resolved
verifyToken(t) ==
  IF hmacKey = NoKey THEN [valid |-> FALSE, error |-> "no_key"]
  ELSE IF t.parts # 3 THEN [valid |-> FALSE, error |-> "malformed"]
  ELSE IF t.sig # hmac(hmacKey, payloadOf(t))
    THEN [valid |-> FALSE, error |-> "invalid_signature"]
  ELSE IF now > t.exp THEN [valid |-> FALSE, error |-> "expired"]
  ELSE IF t.nonce \in revocationSet THEN [valid |-> FALSE, error |-> "revoked"]
  ELSE [valid |-> TRUE, error |-> "null"]

\* checkCapability(appId, capability)
checkCapability(appId, c) ==
  IF appId \in DOMAIN appCaps THEN c \in appCaps[appId] ELSE FALSE

\* the token strings a caller may present: the issued ones, each with its
\* signature replaced by one made under another key, and a string that is
\* not three segments
Presentable ==
  issued \cup {[t EXCEPT !.sig = hmac(NoKey, payloadOf(t))] : t \in issued}
         \cup {Malformed}

CapInit ==
  /\ hmacKey = NoKey
  /\ appCaps = << >>
  /\ appTokenMap = << >>
  /\ revocationSet = {}
  /\ issued = {}
  /\ now = 0
  /\ nextNonce = 1
  /\ grantCall = NoCall

\* initTokenKey(), once at startup
initTokenKey ==
  /\ hmacKey = NoKey
  /\ hmacKey' = ProcessKey
  /\ UNCHANGED <<appCaps, appTokenMap, revocationSet, issued, now, nextNonce, grantCall>>

\* f with f[k] = v, k added to the domain when new
MapSet(f, k, v) == [x \in DOMAIN f \cup {k} |-> IF x = k THEN v ELSE f[x]]
\* f without k
MapDelete(f, k) == [x \in DOMAIN f \ {k} |-> f[x]]

\* grantCapabilities(appId, capabilities) up to its first await: the whitelist
\* is replaced; with nothing to sign the call completes at once; without a key
\* signToken throws and the call ends there
grantBegin(appId, req) ==
  /\ grantCall = NoCall
  /\ nextNonce + Len(filterValid(req)) <= MaxTokens + 1
  /\ LET valid == filterValid(req)
     IN /\ appCaps' = MapSet(appCaps, appId, SeqRange(valid))
        /\ IF valid = <<>>
             THEN /\ appTokenMap' = MapSet(appTokenMap, appId, <<>>)
                  /\ grantCall' = NoCall
           ELSE IF hmacKey = NoKey
             THEN UNCHANGED <<appTokenMap, grantCall>>
           ELSE /\ grantCall' = [appId |-> appId, valid |-> valid, tokenList |-> <<>>]
                /\ UNCHANGED appTokenMap
  /\ UNCHANGED <<hmacKey, revocationSet, issued, now, nextNonce>>

\* one turn of the signing loop: signToken resolves and the token is pushed
grantSign ==
  /\ grantCall # NoCall
  /\ Len(grantCall.tokenList) < Len(grantCall.valid)
  /\ LET cap == grantCall.valid[Len(grantCall.tokenList) + 1]
     IN grantCall' = [grantCall EXCEPT
                        !.tokenList = Append(@, signToken(grantCall.appId, cap))]
  /\ nextNonce' = nextNonce + 1
  /\ UNCHANGED <<hmacKey, appCaps, appTokenMap, revocationSet, issued, now>>

\* the end of grantCapabilities: the token list of the app is replaced
\* by the list of this call, and the tokens are returned
grantEnd ==
  /\ grantCall # NoCall
  /\ Len(grantCall.tokenList) = Len(grantCall.valid)
  /\ appTokenMap' = MapSet(appTokenMap, grantCall.appId, grantCall.tokenList)
  /\ issued' = issued \cup SeqRange(grantCall.tokenList)
  /\ grantCall' = NoCall
  /\ UNCHANGED <<hmacKey, appCaps, revocationSet, now, nextNonce>>

\* the nonces revokeToken adds for a token string (none when it does not parse)
revokedBy(t) == IF t.parts < 2 THEN {} ELSE {t.nonce}

\* revokeToken(tokenStr)
revokeToken(t) ==
  /\ revocationSet' = revocationSet \cup revokedBy(t)
  /\ UNCHANGED <<hmacKey, appCaps, appTokenMap, issued, now, nextNonce, grantCall>>

\* the tokens revokeAll revokes: the list under appTokenMap[appId]
tokensOf(appId) ==
  IF appId \in DOMAIN appTokenMap THEN SeqRange(appTokenMap[appId]) ELSE {}

\* revokeAll(appId)
revokeAll(appId) ==
  /\ appCaps' = MapDelete(appCaps, appId)
  /\ revocationSet' = revocationSet \cup UNION {revokedBy(t) : t \in tokensOf(appId)}
  /\ appTokenMap' = MapDelete(appTokenMap, appId)
  /\ UNCHANGED <<hmacKey, issued, now, nextNonce, grantCall>>

\* the clock advances by one step; the awaits of a grant in progress last
\* far less than a step
clockTick ==
  /\ grantCall = NoCall
  /\ now < MaxTime
  /\ now' = now + 1
  /\ UNCHANGED <<hmacKey, appCaps, appTokenMap, revocationSet, issued,
                 nextNonce, grantCall>>

CapFrame == UNCHANGED <<schedVars, storeVars, dockerVars, wasmVars,
              serverVars, labVars>>

CapNext ==
  \/ initTokenKey /\ CapFrame
  \/ \E a \in AppIds, r \in Requests : grantBegin(a, r) /\ CapFrame
  \/ grantSign /\ CapFrame
  \/ grantEnd /\ CapFrame
  \/ \E t \in Presentable : revokeToken(t) /\ CapFrame
  \/ \E a \in AppIds : revokeAll(a) /\ CapFrame
  \/ clockTick /\ CapFrame

-----------------------------------------------------------------------------
(* Per-app storage *)

\* an appId is a string, written as the sequence of its characters
StoreApps == {<<"a", "/">>, <<"a", "_">>, <<>>, <<".", ".", "/">>}
\* the characters of [a-zA-Z0-9_-] among those the appIds use
SafeChars == {"a", "_"}
Keys == {"k", "j"}
\* a stored value is a string of 1 or of MaxValueLen characters, written as
\* its length
MaxValueLen == 8
ValueLens == {1, MaxValueLen}
\* the quota in bytes, scaled down to the sizes above
DEFAULT_QUOTA == 24
MaxStray == 1
Null == 0
EmptyMap == <<>>
NoRet == [op |-> "none", ok |-> TRUE, error |-> "none", value |-> Null]

\* the objects storageImport is called with
ImportObjects == {[x \in {"k"} |-> MaxValueLen], [x \in Keys |-> MaxValueLen]}

\* the directory of an app named by the appId as it is
appDirUnsafe(appId) == appId

\* the directory of an app: every character outside the safe set becomes '_'
appDir(appId) ==
  [i \in 1..Len(appId) |-> IF appId[i] \in SafeChars THEN appId[i] ELSE "_"]

\* the serialized size: 2 for the braces, and per entry the quoted key, the
\* quoted value and 4
calcSize(dataMap) ==
  2 + SumOver([k \in DOMAIN dataMap |-> (Len(k) + 2) + (dataMap[k] + 2) + 4],
              DOMAIN dataMap)

\* loadStore(appId): the cached entry, or a clean one read from store.json
loadStore(appId) ==
  IF appId \in DOMAIN cache THEN cache[appId]
  ELSE [data |-> IF appDir(appId) \in DOMAIN disk THEN disk[appDir(appId)]
                 ELSE EmptyMap,
        dirty |-> FALSE]

\* the cache insertion order once loadStore(appId) has run
orderWith(appId) ==
  IF appId \in DOMAIN cache THEN cacheOrder ELSE Append(cacheOrder, appId)

\* flushApp(appId) on the storage state s; ownTimer: the call is the callback
\* of the timer held in writeTimers.  A timer dropped from the Map without
\* clearTimeout stays armed.
flushApp(s, appId, ownTimer) ==
  IF appId \notin DOMAIN s.cache \/ ~s.cache[appId].dirty THEN s
  ELSE [cache |-> [s.cache EXCEPT ![appId].dirty = FALSE],
        disk |-> MapSet(s.disk, appDir(appId), s.cache[appId].data),
        writeTimers |-> s.writeTimers \ {appId},
        stray |-> IF appId \in s.writeTimers /\ ~ownTimer
                    THEN [s.stray EXCEPT ![appId] = @ + 1]
                    ELSE s.stray]

StoreState == [cache |-> cache, disk |-> disk, writeTimers |-> writeTimers,
               stray |-> stray]

StoreInit ==
  /\ cache = EmptyMap
  /\ cacheOrder = <<>>
  /\ disk = EmptyMap
  /\ writeTimers = {}
  /\ stray = [a \in StoreApps |-> 0]
  /\ storeRet = NoRet
  /\ clients = {<<"a", "/">>}
  /\ keyspace = Keys

\* the module at import, with the apps and keys of the isolation runs
IsolationInit ==
  /\ cache = EmptyMap
  /\ cacheOrder = <<>>
  /\ disk = EmptyMap
  /\ writeTimers = {}
  /\ stray = [a \in StoreApps |-> 0]
  /\ storeRet = NoRet
  /\ clients = {<<"a", "/">>, <<"a", "_">>}
  /\ keyspace = Keys

\* the module at import, with the appIds of the path runs
PathInit ==
  /\ cache = EmptyMap
  /\ cacheOrder = <<>>
  /\ disk = EmptyMap
  /\ writeTimers = {}
  /\ stray = [a \in StoreApps |-> 0]
  /\ storeRet = NoRet
  /\ clients = {<<".", ".", "/">>, <<>>}
  /\ keyspace = {"k"}

storageGet(appId, key) ==
  LET store == loadStore(appId) IN
  /\ cache' = MapSet(cache, appId, store)
  /\ cacheOrder' = orderWith(appId)
  /\ storeRet' = [op |-> "get", ok |-> TRUE, error |-> "none",
                  value |-> IF key \in DOMAIN store.data THEN store.data[key]
                            ELSE Null]
  /\ UNCHANGED <<disk, writeTimers, stray>>

\* storageSet(appId, key, value): write, measure, and on excess delete the key
storageSet(appId, key, value) ==
  LET store == loadStore(appId)
      written == MapSet(store.data, key, value)
  IN
  /\ cacheOrder' = orderWith(appId)
  /\ IF calcSize(written) > DEFAULT_QUOTA
       THEN /\ cache' = MapSet(cache, appId,
                               [store EXCEPT !.data = MapDelete(written, key)])
            /\ storeRet' = [op |-> "set", ok |-> FALSE, error |-> "quota",
                            value |-> Null]
            /\ UNCHANGED writeTimers
       ELSE /\ cache' = MapSet(cache, appId, [data |-> written, dirty |-> TRUE])
            /\ writeTimers' = writeTimers \cup {appId}
            /\ storeRet' = [op |-> "set", ok |-> TRUE, error |-> "none",
                            value |-> Null]
  /\ UNCHANGED <<disk, stray>>

storageRemove(appId, key) ==
  LET store == loadStore(appId)
      existed == key \in DOMAIN store.data
  IN
  /\ cacheOrder' = orderWith(appId)
  /\ cache' = MapSet(cache, appId,
                     IF existed
                       THEN [data |-> MapDelete(store.data, key), dirty |-> TRUE]
                       ELSE store)
  /\ writeTimers' = IF existed THEN writeTimers \cup {appId} ELSE writeTimers
  /\ storeRet' = [op |-> "remove", ok |-> existed, error |-> "none",
                  value |-> Null]
  /\ UNCHANGED <<disk, stray>>

storageClear(appId) ==
  LET cleared == [StoreState EXCEPT
                    !.cache = MapSet(cache, appId,
                                     [data |-> EmptyMap, dirty |-> TRUE])]
      s == flushApp(cleared, appId, FALSE)
  IN
  /\ appId \in writeTimers => stray[appId] < MaxStray
  /\ cacheOrder' = orderWith(appId)
  /\ cache' = s.cache
  /\ disk' = s.disk
  /\ writeTimers' = s.writeTimers
  /\ stray' = s.stray
  /\ storeRet' = NoRet

\* rmSync(dir, { recursive: true }) on the directories under the data root;
\* the directory with the empty name is the data root itself
rmSync(dirs, dir) == IF dir = <<>> THEN EmptyMap ELSE MapDelete(dirs, dir)

storageDelete(appId) ==
  /\ cache' = MapDelete(cache, appId)
  /\ cacheOrder' = SelectSeq(cacheOrder, LAMBDA a : a # appId)
  /\ writeTimers' = writeTimers \ {appId}
  /\ disk' = rmSync(disk, appDir(appId))
  /\ storeRet' = NoRet
  /\ UNCHANGED stray

storageImport(appId, data) ==
  LET store == loadStore(appId)
      merged == [k \in DOMAIN store.data \cup DOMAIN data |->
                   IF k \in DOMAIN data THEN data[k] ELSE store.data[k]]
  IN
  /\ cacheOrder' = orderWith(appId)
  /\ IF calcSize(merged) > DEFAULT_QUOTA
       THEN /\ cache' = MapSet(cache, appId, [store EXCEPT !.data = merged])
            /\ storeRet' = [op |-> "import", ok |-> FALSE, error |-> "quota",
                            value |-> Null]
            /\ UNCHANGED writeTimers
       ELSE /\ cache' = MapSet(cache, appId, [data |-> merged, dirty |-> TRUE])
            /\ writeTimers' = writeTimers \cup {appId}
            /\ storeRet' = [op |-> "import", ok |-> TRUE, error |-> "none",
                            value |-> Null]
  /\ UNCHANGED <<disk, stray>>

RECURSIVE flushEach(_, _)
flushEach(s, order) ==
  IF order = <<>> THEN s
  ELSE flushEach(flushApp(s, Head(order), FALSE), Tail(order))

storageFlushAll ==
  LET s == flushEach(StoreState, cacheOrder) IN
  /\ \A a \in writeTimers : stray[a] < MaxStray
  /\ cache' = s.cache
  /\ disk' = s.disk
  /\ writeTimers' = s.writeTimers
  /\ stray' = s.stray
  /\ storeRet' = NoRet
  /\ UNCHANGED cacheOrder

\* the debounce timer of appId fires
saveTimerFires(appId) ==
  LET s == flushApp(StoreState, appId, TRUE) IN
  /\ appId \in writeTimers
  /\ cache' = s.cache
  /\ disk' = s.disk
  /\ writeTimers' = s.writeTimers
  /\ stray' = s.stray
  /\ storeRet' = NoRet
  /\ UNCHANGED cacheOrder

\* a timeout that is no longer in the writeTimers Map fires
strayTimerFires(appId) ==
  LET s == flushApp([StoreState EXCEPT !.stray[appId] = @ - 1], appId, FALSE) IN
  /\ stray[appId] > 0
  /\ cache' = s.cache
  /\ disk' = s.disk
  /\ writeTimers' = s.writeTimers
  /\ stray' = s.stray
  /\ storeRet' = NoRet
  /\ UNCHANGED cacheOrder

\* the process ends without a flush and starts again: the module state is new
processRestart ==
  /\ cache # EmptyMap
  /\ cache' = EmptyMap
  /\ cacheOrder' = <<>>
  /\ writeTimers' = {}
  /\ stray' = [a \in StoreApps |-> 0]
  /\ storeRet' = NoRet
  /\ UNCHANGED disk

StoreFrame ==
  UNCHANGED <<clients, keyspace, schedVars, capVars, dockerVars, wasmVars,
              serverVars, labVars>>

StoreNext ==
  \/ \E a \in clients, k \in keyspace : storageGet(a, k) /\ StoreFrame
  \/ \E a \in clients, k \in keyspace, v \in ValueLens :
       storageSet(a, k, v) /\ StoreFrame
  \/ \E a \in clients, k \in keyspace : storageRemove(a, k) /\ StoreFrame
  \/ \E a \in clients : storageClear(a) /\ StoreFrame
  \/ \E a \in clients : storageDelete(a) /\ StoreFrame
  \/ \E a \in clients, d \in ImportObjects :
       DOMAIN d \subseteq keyspace /\ storageImport(a, d) /\ StoreFrame
  \/ storageFlushAll /\ StoreFrame
  \/ \E a \in clients : saveTimerFires(a) /\ StoreFrame
  \/ \E a \in clients : strayTimerFires(a) /\ StoreFrame
  \/ processRestart /\ StoreFrame

-----------------------------------------------------------------------------
(* Container process manager *)

DockerApps == {"x", "y"}
\* config.docker.portStart, and the number of ports up to config.docker.portEnd
portStart == 1
PortCount == 2
portEnd == portStart + PortCount - 1
PortRange == portStart..portEnd
\* config.docker.maxContainers
maxContainers == 1
\* launchContainer and stopContainer calls the environment makes
MaxCalls == 3
LifecycleCalls == 2
LaunchCalls == 2
MaxPortCalls == 3
NoPort == 0
NoDockerRet == [op |-> "none", appId |-> "none", ok |-> TRUE, error |-> "none",
                port |-> NoPort, swallowed |-> FALSE]

DockerInit ==
  /\ allocatedPorts = {}
  /\ processes = EmptyMap
  /\ launching = {}
  /\ stopping = {}
  /\ containers = {}
  /\ nextCall = 1
  /\ dockerRet = NoDockerRet
  /\ infoStatus = EmptyMap
  /\ checks = {}
  /\ timers = {}
  /\ dockerClients = DockerApps
  /\ callLimit = MaxCalls

\* one app launched, checked and stopped over and over
LifecycleInit ==
  /\ allocatedPorts = {}
  /\ processes = EmptyMap
  /\ launching = {}
  /\ stopping = {}
  /\ containers = {}
  /\ nextCall = 1
  /\ dockerRet = NoDockerRet
  /\ infoStatus = EmptyMap
  /\ checks = {}
  /\ timers = {}
  /\ dockerClients = {"x"}
  /\ callLimit = LifecycleCalls

\* launches through the route
LaunchInit ==
  /\ allocatedPorts = {}
  /\ processes = EmptyMap
  /\ launching = {}
  /\ stopping = {}
  /\ containers = {}
  /\ nextCall = 1
  /\ dockerRet = NoDockerRet
  /\ infoStatus = EmptyMap
  /\ checks = {}
  /\ timers = {}
  /\ dockerClients = AppIds
  /\ callLimit = LaunchCalls

\* one app launched, stopped and launched again
RelaunchInit ==
  /\ allocatedPorts = {}
  /\ processes = EmptyMap
  /\ launching = {}
  /\ stopping = {}
  /\ containers = {}
  /\ nextCall = 1
  /\ dockerRet = NoDockerRet
  /\ infoStatus = EmptyMap
  /\ checks = {}
  /\ timers = {}
  /\ dockerClients = {"x"}
  /\ callLimit = MaxCalls

\* launches, stops and timeouts in any interleaving
PortsInit ==
  /\ allocatedPorts = {}
  /\ processes = EmptyMap
  /\ launching = {}
  /\ stopping = {}
  /\ containers = {}
  /\ nextCall = 1
  /\ dockerRet = NoDockerRet
  /\ infoStatus = EmptyMap
  /\ checks = {}
  /\ timers = {}
  /\ dockerClients = {"x"}
  /\ callLimit = MaxPortCalls

freePorts == PortRange \ allocatedPorts

\* allocatePort(): the ports it can return, the lowest free port of the range
allocatePort == {p \in freePorts : \A q \in freePorts : p <= q}

launchFails(appId, error) ==
  /\ dockerRet' = [NoDockerRet EXCEPT !.op = "launch", !.appId = appId,
                                      !.ok = FALSE, !.error = error]
  /\ UNCHANGED <<allocatedPorts, processes, launching, stopping, containers>>

\* launchContainer(appId, ..., containerConfig) up to the create request;
\* webPort: containerConfig.port is set
launchContainer(appId, webPort) ==
  /\ nextCall <= callLimit
  /\ nextCall' = nextCall + 1
  /\ IF Cardinality(DOMAIN processes) >= maxContainers
       THEN launchFails(appId, "max")
     ELSE IF webPort /\ allocatePort = {}
       THEN launchFails(appId, "ports")
     ELSE \E port \in (IF webPort THEN allocatePort ELSE {NoPort}) :
            /\ allocatedPorts' = allocatedPorts \cup ({port} \ {NoPort})
            /\ launching' = launching \cup
                 {[call |-> nextCall, appId |-> appId, port |-> port,
                   pc |-> "create"]}
            /\ dockerRet' = NoDockerRet
            /\ UNCHANGED <<processes, stopping, containers>>
  /\ UNCHANGED <<infoStatus, checks, timers>>

\* the create request of launch c answers
createAnswers(c, ok) ==
  /\ c \in launching /\ c.pc = "create"
  /\ IF ok
       THEN /\ containers' = containers \cup {c.call}
            /\ launching' = (launching \ {c}) \cup {[c EXCEPT !.pc = "start"]}
            /\ dockerRet' = NoDockerRet
            /\ UNCHANGED allocatedPorts
       ELSE /\ allocatedPorts' = allocatedPorts \ {c.port}
            /\ launching' = launching \ {c}
            /\ dockerRet' = [NoDockerRet EXCEPT !.op = "launch",
                               !.appId = c.appId, !.ok = FALSE,
                               !.error = "engine"]
            /\ UNCHANGED containers
  /\ UNCHANGED <<processes, stopping, nextCall>>
  /\ UNCHANGED <<infoStatus, checks, timers>>

\* processes.set(appId, ...): the place of the entry in the Map, which
\* iterates in the order of insertion; an appId that is there keeps its place
insertedAt(appId) ==
  IF appId \in DOMAIN processes THEN processes[appId].at
  ELSE Cardinality(DOMAIN processes) + 1

\* the entries of the Map once one of them is deleted: those behind it move
\* up one place
compact(procs) ==
  [a \in DOMAIN procs |->
     [procs[a] EXCEPT
        !.at = Cardinality({b \in DOMAIN procs : procs[b].at <= procs[a].at})]]

\* the start request of launch c answers: the process is tracked, or the port
\* is freed and the container's removal requested
startAnswers(c, ok) ==
  /\ c \in launching /\ c.pc = "start"
  /\ IF ok
       THEN /\ processes' = MapSet(processes, c.appId,
                                   [containerId |-> c.call, port |-> c.port,
                                    status |-> "starting",
                                    at |-> insertedAt(c.appId)])
            /\ launching' = launching \ {c}
            /\ dockerRet' = [NoDockerRet EXCEPT !.op = "launch",
                               !.appId = c.appId, !.port = c.port]
            /\ infoStatus' = MapSet(infoStatus, c.call, "starting")
            /\ timers' = timers \cup
                 {[kind |-> "poll", appId |-> c.appId, info |-> c.call],
                  [kind |-> "wall", appId |-> c.appId, info |-> c.call]}
            /\ UNCHANGED allocatedPorts
       ELSE /\ allocatedPorts' = allocatedPorts \ {c.port}
            /\ launching' = (launching \ {c}) \cup {[c EXCEPT !.pc = "delete"]}
            /\ dockerRet' = NoDockerRet
            /\ UNCHANGED <<processes, infoStatus, timers>>
  /\ UNCHANGED <<stopping, containers, nextCall, checks>>

\* the removal requested after a failed start answers; launch c rejects
deleteAnswers(c, ok) ==
  /\ c \in launching /\ c.pc = "delete"
  /\ containers' = IF ok THEN containers \ {c.call} ELSE containers
  /\ launching' = launching \ {c}
  /\ dockerRet' = [NoDockerRet EXCEPT !.op = "launch", !.appId = c.appId,
                                      !.ok = FALSE, !.error = "engine"]
  /\ UNCHANGED <<allocatedPorts, processes, stopping, nextCall>>
  /\ UNCHANGED <<infoStatus, checks, timers>>

\* stopContainer(appId) up to the stop request
stopContainer(appId) ==
  /\ nextCall <= callLimit
  /\ nextCall' = nextCall + 1
  /\ IF appId \notin DOMAIN processes
       THEN /\ dockerRet' = [NoDockerRet EXCEPT !.op = "stop", !.appId = appId,
                               !.ok = FALSE, !.error = "not found"]
            /\ UNCHANGED stopping
       ELSE /\ stopping' = stopping \cup
                 {[call |-> nextCall, appId |-> appId,
                   proc |-> processes[appId], pc |-> "stop",
                   swallowed |-> FALSE, all |-> FALSE]}
            /\ dockerRet' = NoDockerRet
  /\ UNCHANGED <<allocatedPorts, processes, launching, containers>>
  /\ UNCHANGED <<infoStatus, checks, timers>>

\* the stop request of call c answers; an error is swallowed
stopAnswers(c, ok) ==
  /\ c \in stopping /\ c.pc = "stop"
  /\ stopping' = (stopping \ {c}) \cup
                   {[c EXCEPT !.pc = "remove", !.swallowed = ~ok]}
  /\ dockerRet' = NoDockerRet
  /\ UNCHANGED <<allocatedPorts, processes, launching, containers, nextCall>>
  /\ UNCHANGED <<infoStatus, checks, timers>>

\* the end of stopContainer with the port freed and the process forgotten
\* only when the engine reported no error
stopEndsStrict(c, ok) ==
  /\ IF ok /\ ~c.swallowed
       THEN /\ allocatedPorts' = allocatedPorts \ {c.proc.port}
            /\ processes' = compact(MapDelete(processes, c.appId))
       ELSE UNCHANGED <<allocatedPorts, processes>>

\* the end of stopContainer: the port of the process is freed and the appId
\* is forgotten
stopEnds(c, ok) ==
  /\ allocatedPorts' = allocatedPorts \ {c.proc.port}
  /\ processes' = compact(MapDelete(processes, c.appId))

\* the appIds that processes.keys() has still to give, first one first: the
\* iterator follows the Map as it is now, and what it has given is deleted
keysLeft(procs) ==
  {a \in DOMAIN procs : \A b \in DOMAIN procs : procs[a].at <= procs[b].at}

\* stopContainer(appId) as the loop of stopAll call n calls it
stopNext(n, procs) ==
  {[call |-> n, appId |-> a, proc |-> procs[a], pc |-> "stop",
    swallowed |-> FALSE, all |-> TRUE] : a \in keysLeft(procs)}

\* stopAll() up to its first stop request
stopAll ==
  /\ nextCall <= callLimit
  /\ nextCall' = nextCall + 1
  /\ stopping' = stopping \cup stopNext(nextCall, processes)
  /\ dockerRet' = IF DOMAIN processes = {}
                    THEN [NoDockerRet EXCEPT !.op = "stopAll"]
                    ELSE NoDockerRet
  /\ UNCHANGED <<allocatedPorts, processes, launching, containers>>
  /\ UNCHANGED <<infoStatus, checks, timers>>

\* the remove request of call c answers; an error is swallowed. A stop made
\* by stopAll is followed by the stop of the next appId of the Map
removeAnswers(c, ok) ==
  /\ c \in stopping /\ c.pc = "remove"
  /\ containers' = IF ok THEN containers \ {c.proc.containerId} ELSE containers
  /\ stopEnds(c, ok)
  /\ stopping' = (stopping \ {c}) \cup
                   (IF c.all THEN stopNext(c.call, processes') ELSE {})
  /\ dockerRet' =
       IF ~c.all
         THEN [NoDockerRet EXCEPT !.op = "stop", !.appId = c.appId,
                                  !.port = c.proc.port,
                                  !.swallowed = c.swallowed \/ ~ok]
       ELSE IF DOMAIN processes' = {}
         THEN [NoDockerRet EXCEPT !.op = "stopAll"]
       ELSE NoDockerRet
  /\ UNCHANGED <<launching, nextCall>>
  /\ UNCHANGED <<infoStatus, checks, timers>>

\* the tracked processes once the ProcessInfo objects have the status st
tracked(st) ==
  [a \in DOMAIN processes |->
     [processes[a] EXCEPT !.status = st[processes[a].containerId]]]

\* healthCheck(appId) up to the inspect request
healthCheck(appId) ==
  /\ nextCall <= callLimit
  /\ nextCall' = nextCall + 1
  /\ IF appId \notin DOMAIN processes
       THEN /\ dockerRet' = [NoDockerRet EXCEPT !.op = "health",
                               !.appId = appId, !.ok = FALSE,
                               !.error = "not_found"]
            /\ UNCHANGED checks
       ELSE /\ checks' = checks \cup
                 {[call |-> nextCall, appId |-> appId,
                   proc |-> processes[appId].containerId, poll |-> 0]}
            /\ dockerRet' = NoDockerRet
  /\ UNCHANGED <<allocatedPorts, processes, launching, stopping, containers,
                 infoStatus, timers>>

\* the timeout set 3 s after the launch of ProcessInfo t.info fires: it calls
\* healthCheck(appId), which finds the process tracked under the appId now
pollFires(t) ==
  /\ t \in timers /\ t.kind = "poll"
  /\ \A u \in timers : u.kind = "poll" => t.info <= u.info
  /\ timers' = timers \ {t}
  /\ IF t.appId \notin DOMAIN processes
       THEN /\ infoStatus' = [infoStatus EXCEPT ![t.info] = "failed"]
            /\ processes' = tracked(infoStatus')
            /\ UNCHANGED checks
       ELSE /\ checks' = checks \cup
                 {[call |-> 0 - t.info, appId |-> t.appId,
                   proc |-> processes[t.appId].containerId, poll |-> t.info]}
            /\ UNCHANGED <<infoStatus, processes>>
  /\ dockerRet' = NoDockerRet
  /\ UNCHANGED <<allocatedPorts, launching, stopping, containers, nextCall>>

\* the status fields once the inspect request of healthCheck call h has
\* answered: "running", "exited", or "error" when the request fails
afterHealth(h, answer) ==
  IF answer = "error" \/ infoStatus[h.proc] = "stopped" THEN infoStatus
  ELSE [infoStatus EXCEPT
          ![h.proc] = IF answer = "running" THEN "running" ELSE "stopped"]

\* the inspect request of healthCheck call h answers; when the 3 s timeout
\* of ProcessInfo h.poll made the call, its callback goes on
healthAnswers(h, answer) ==
  /\ h \in checks
  /\ checks' = checks \ {h}
  /\ infoStatus' =
       IF h.poll = 0 THEN afterHealth(h, answer)
       ELSE [afterHealth(h, answer) EXCEPT
               ![h.poll] = IF answer = "running" THEN "running" ELSE "failed"]
  /\ processes' = tracked(infoStatus')
  /\ dockerRet' = [NoDockerRet EXCEPT !.op = "health", !.appId = h.appId,
                                      !.ok = (answer = "running")]
  /\ UNCHANGED <<allocatedPorts, launching, stopping, containers, nextCall,
                 timers>>

\* the timeout set 30 minutes after the launch of ProcessInfo t.info fires:
\* it calls stopContainer(appId) when a process is tracked under the appId
wallFires(t) ==
  /\ t \in timers /\ t.kind = "wall"
  /\ \A u \in timers : t.info <= u.info /\ (u.info = t.info => u = t)
  /\ timers' = timers \ {t}
  /\ IF t.appId \in DOMAIN processes
       THEN stopping' = stopping \cup
              {[call |-> 0 - t.info, appId |-> t.appId,
                proc |-> processes[t.appId], pc |-> "stop",
                swallowed |-> FALSE, all |-> FALSE]}
       ELSE UNCHANGED stopping
  /\ dockerRet' = NoDockerRet
  /\ UNCHANGED <<allocatedPorts, processes, launching, containers, nextCall,
                 infoStatus, checks>>

DockerFrame ==
  UNCHANGED <<dockerClients, callLimit, schedVars, capVars, storeVars, wasmVars,
              serverVars, labVars>>

DockerNext ==
  \/ \E a \in dockerClients, w \in BOOLEAN : launchContainer(a, w) /\ DockerFrame
  \/ \E c \in launching, ok \in BOOLEAN : createAnswers(c, ok) /\ DockerFrame
  \/ \E c \in launching, ok \in BOOLEAN : startAnswers(c, ok) /\ DockerFrame
  \/ \E c \in launching, ok \in BOOLEAN : deleteAnswers(c, ok) /\ DockerFrame
  \/ \E a \in dockerClients : stopContainer(a) /\ DockerFrame
  \/ \E c \in stopping, ok \in BOOLEAN : stopAnswers(c, ok) /\ DockerFrame
  \/ \E c \in stopping, ok \in BOOLEAN : removeAnswers(c, ok) /\ DockerFrame

\* the process manager with its health checks and timeouts
LifecycleNext ==
  \/ DockerNext
  \/ \E a \in dockerClients : healthCheck(a) /\ DockerFrame
  \/ \E t \in timers : pollFires(t) /\ DockerFrame
  \/ \E h \in checks, answer \in {"running", "exited", "error"} :
       healthAnswers(h, answer) /\ DockerFrame
  \/ \E t \in timers : wallFires(t) /\ DockerFrame

\* launchContainer, stopContainer, stopAll and the timeouts, with an engine
\* that carries out every stop and removal it is asked for
PortsNext ==
  \/ \E a \in dockerClients, w \in BOOLEAN :
       launchContainer(a, w) /\ DockerFrame
  \/ \E c \in launching, ok \in BOOLEAN : createAnswers(c, ok) /\ DockerFrame
  \/ \E c \in launching, ok \in BOOLEAN : startAnswers(c, ok) /\ DockerFrame
  \/ \E c \in launching : deleteAnswers(c, TRUE) /\ DockerFrame
  \/ \E a \in dockerClients : stopContainer(a) /\ DockerFrame
  \/ \E c \in stopping : stopAnswers(c, TRUE) /\ DockerFrame
  \/ \E c \in stopping : removeAnswers(c, TRUE) /\ DockerFrame
  \/ stopAll /\ DockerFrame
  \/ \E t \in timers : pollFires(t) /\ DockerFrame
  \/ \E h \in checks : healthAnswers(h, "running") /\ DockerFrame
  \/ \E t \in timers : wallFires(t) /\ DockerFrame

\* no call of the environment is waiting on the engine
settled == launching = {} /\ stopping = {} /\ checks = {}

\* the process manager under a client that makes one call at a time; the
\* timeouts fire whenever they are due
RelaunchNext ==
  \/ \E a \in dockerClients, w \in BOOLEAN :
       settled /\ launchContainer(a, w) /\ DockerFrame
  \/ \E c \in launching, ok \in BOOLEAN : createAnswers(c, ok) /\ DockerFrame
  \/ \E c \in launching, ok \in BOOLEAN : startAnswers(c, ok) /\ DockerFrame
  \/ \E c \in launching, ok \in BOOLEAN : deleteAnswers(c, ok) /\ DockerFrame
  \/ \E a \in dockerClients : settled /\ stopContainer(a) /\ DockerFrame
  \/ \E c \in stopping, ok \in BOOLEAN : stopAnswers(c, ok) /\ DockerFrame
  \/ \E c \in stopping, ok \in BOOLEAN : removeAnswers(c, ok) /\ DockerFrame
  \/ \E a \in dockerClients : settled /\ healthCheck(a) /\ DockerFrame
  \/ \E t \in timers : pollFires(t) /\ DockerFrame
  \/ \E h \in checks, answer \in {"running", "exited", "error"} :
       healthAnswers(h, answer) /\ DockerFrame
  \/ \E t \in timers : wallFires(t) /\ DockerFrame

\* capabilities.join(',')
RECURSIVE joinCaps(_)
joinCaps(capabilities) ==
  IF capabilities = <<>> THEN ""
  ELSE IF Len(capabilities) = 1 THEN Head(capabilities)
  ELSE Head(capabilities) \o "," \o joinCaps(Tail(capabilities))

\* config.claude.apiKey, the kernel's key
apiKey == "sk-kernel"
\* process.cwd()
cwd == "/opt/llm-os"

\* the body of the create request of launchContainer
createBody(appId, capabilities, containerConfig, port) ==
  LET hasNetwork == "process:network" \in SeqRange(capabilities)
      hasVolume == "process:volume" \in SeqRange(capabilities)
      hasAnthropicKey == "api:anthropic" \in SeqRange(capabilities)
      env == <<"LLMOS_APP_ID=" \o appId,
               "LLMOS_CAPABILITIES=" \o joinCaps(capabilities)>>
             \o containerConfig.env
      dataDir == cwd \o "/data/" \o appId
  IN [name |-> "llmos-" \o appId,
      Env |-> IF hasAnthropicKey /\ apiKey # ""
                THEN Append(env, "ANTHROPIC_API_KEY=" \o apiKey) ELSE env,
      ExposedPorts |-> IF containerConfig.port # 0
                         THEN {containerConfig.port} ELSE {},
      PortBindings |-> IF containerConfig.port # 0 /\ port # NoPort
                         THEN {<<containerConfig.port, port>>} ELSE {},
      Binds |-> IF hasVolume THEN <<dataDir \o ":/app/data">> ELSE <<>>,
      Memory |-> 512 * 1024 * 1024,
      MemorySwap |-> 512 * 1024 * 1024,
      NanoCpus |-> 1000000000,
      PidsLimit |-> 64,
      ReadonlyRootfs |-> TRUE,
      NetworkMode |-> IF hasNetwork THEN "bridge" ELSE "none",
      CapDrop |-> <<"ALL">>,
      SecurityOpt |-> <<"no-new-privileges">>]

\* the capability lists and the configs the callers of the launch route send
LaunchCaps ==
  {<<>>, <<"process:network">>, <<"process:volume", "api:anthropic">>}
LaunchConfigs ==
  {[port |-> 0, env |-> <<>>, HostConfig |-> "none"],
   [port |-> 8080, env |-> <<"ANTHROPIC_API_KEY=mine">>,
    HostConfig |-> "privileged"]}
\* the capability lists the callers of grantCapabilities pass for containers
LaunchRequests == {<<"process:network">>, <<"process:volume", "api:anthropic">>}

\* POST /api/process/launch: the route hands the appId, the capabilities and
\* the config of the request body to launchContainer; output is the body of
\* the create request the call sends
apiProcessLaunch(appId, capabilities, containerConfig) ==
  /\ launchContainer(appId, containerConfig.port # 0)
  /\ output' =
       IF launching' = launching THEN <<>>
       ELSE LET c == CHOOSE c \in launching' \ launching : TRUE
            IN [appId |-> appId, config |-> containerConfig,
                body |-> createBody(appId, capabilities, containerConfig,
                                    c.port)]

LaunchFrame ==
  UNCHANGED <<input, dockerClients, callLimit, schedVars, storeVars,
              wasmVars, serverVars>>

\* the grants of the kernel and the launch route
LaunchNext ==
  \/ \E a \in AppIds, r \in LaunchRequests :
       grantBegin(a, r) /\ UNCHANGED <<dockerVars, labVars>> /\ LaunchFrame
  \/ \E a \in AppIds :
       revokeAll(a) /\ UNCHANGED <<dockerVars, labVars>> /\ LaunchFrame
  \/ \E a \in AppIds, capabilities \in LaunchCaps,
        containerConfig \in LaunchConfigs :
       apiProcessLaunch(a, capabilities, containerConfig)
       /\ UNCHANGED capVars /\ LaunchFrame

-----------------------------------------------------------------------------
(* WASM sandbox *)

\* launch calls the environment makes
MaxLaunches == 2
\* launch calls the environment makes with modules that make host calls
MaxHostLaunches == 1
DEFAULT_MAX_MEMORY_PAGES == 1024

\* SharedArrayBuffer layout
STATE_IDLE == 0
STATE_PENDING == 1
STATE_READY == 2
SAB_DATA_START == 12
SAB_SIZE == 65536

\* host call types
CALL == [STORAGE_GET |-> 1, STORAGE_SET |-> 2, STORAGE_REMOVE |-> 3,
         STORAGE_KEYS |-> 4, NOTIFY |-> 5, CAP_REQUEST |-> 6]

\* ---- the module binary

\* buf[pos] of a Uint8Array; a read past the end is undefined, which the
\* bitwise operators that take it turn into 0
At(buf, pos) == IF pos < Len(buf) THEN buf[pos + 1] ELSE 0

\* (group << shift) as a signed 32-bit integer, for the shifts of the first
\* five bytes of an encoding: bit 31 is the sign, higher bits are dropped
ShiftLeft32(group, shift) ==
  IF shift < 28 THEN group * (2 ^ shift)
  ELSE (group % 8) * (2 ^ 28)
       - (IF (group \div 8) % 2 = 1 THEN 2 ^ 30 ELSE 0)
       - (IF (group \div 8) % 2 = 1 THEN 2 ^ 30 ELSE 0)

\* the loop of readLEB128U; the groups of an encoding of up to five bytes
\* occupy different bits, so |= adds them
RECURSIVE lebLoop(_, _, _, _)
lebLoop(buf, pos, shift, result) ==
  IF pos < Len(buf) /\ shift <= 28
    THEN LET byte == At(buf, pos)
             r == result + ShiftLeft32(byte % 128, shift)
         IN IF byte < 128 THEN [value |-> r, pos |-> pos + 1]
            ELSE lebLoop(buf, pos + 1, shift + 7, r)
    ELSE [value |-> result, pos |-> pos]

readLEB128U(buf, offset) ==
  LET r == lebLoop(buf, offset, 0, 0)
  IN [value |-> r.value, bytesRead |-> r.pos - offset]

\* the loop over the memories of a memory section: "ok" or the error thrown
RECURSIVE memoryLoop(_, _, _, _, _)
memoryLoop(buf, pos, i, count, maxPagesAllowed) ==
  IF i >= count THEN "ok"
  ELSE LET flags == At(buf, pos)
           initial == readLEB128U(buf, pos + 1)
           pos2 == pos + 1 + initial.bytesRead
           maximum == readLEB128U(buf, pos2)
       IN IF flags % 2 = 1
            THEN IF maximum.value > maxPagesAllowed THEN "memory maximum"
                 ELSE memoryLoop(buf, pos2 + maximum.bytesRead, i + 1, count,
                                 maxPagesAllowed)
            ELSE "unbounded memory"

\* the loop over the sections
RECURSIVE sectionLoop(_, _, _)
sectionLoop(buf, offset, maxPagesAllowed) ==
  IF offset >= Len(buf) THEN "ok"
  ELSE LET sectionId == At(buf, offset)
           sectionLen == readLEB128U(buf, offset + 1)
           start == offset + 1 + sectionLen.bytesRead
           sectionEnd == start + sectionLen.value
           count == readLEB128U(buf, start)
           found == IF sectionId = 5
                      THEN memoryLoop(buf, start + count.bytesRead, 0,
                                      count.value, maxPagesAllowed)
                      ELSE "ok"
       IN IF found # "ok" THEN found
          ELSE sectionLoop(buf, sectionEnd, maxPagesAllowed)

\* validateMemorySection(bytes, maxPagesAllowed): "ok" or the error thrown
validateMemorySection(bytes, maxPagesAllowed) ==
  IF Len(bytes) < 8 \/ bytes[1] # 0 \/ bytes[2] # 97 \/ bytes[3] # 115
     \/ bytes[4] # 109
    THEN "Invalid WASM magic bytes"
    ELSE sectionLoop(bytes, 8, maxPagesAllowed)

\* ---- the binaries the tests build

RECURSIVE leb128u(_)
leb128u(value) ==
  IF value \div 128 = 0 THEN <<value % 128>>
  ELSE <<(value % 128) + 128>> \o leb128u(value \div 128)

\* the encodings of 2^31 and of 2^32 - 1
Leb2p31 == <<128, 128, 128, 128, 8>>
LebMaxU32 == <<255, 255, 255, 255, 15>>

section(id, content) == <<id>> \o leb128u(Len(content)) \o content

RECURSIVE Concat(_)
Concat(ss) == IF ss = <<>> THEN <<>> ELSE Head(ss) \o Concat(Tail(ss))

buildWasm(sections) == <<0, 97, 115, 109, 1, 0, 0, 0>> \o Concat(sections)

\* one memory of a memory section: max is an encoded maximum, or <<>> for none
memoryEntry(initial, max) ==
  IF max # <<>> THEN <<1>> \o leb128u(initial) \o max
  ELSE <<0>> \o leb128u(initial)

memSection(initial, max) == section(5, <<1>> \o memoryEntry(initial, max))

\* a type section with the type () -> ()
typeSection == section(1, <<1, 96, 0, 0>>)

\* ---- programs

\* a module: its bytes, the llmos functions it imports, whether it exports
\* the entry function, whether the entry function traps, and the host calls
\* the entry function makes
GoodModule == [bytes |-> buildWasm(<<typeSection>>), imports |-> <<>>,
               entry |-> TRUE, traps |-> FALSE, calls |-> <<>>]
\* the launches the environment makes: a module and the granted capabilities
Programs ==
  { [module |-> GoodModule, capabilities |-> {}],
    [module |-> [GoodModule EXCEPT !.bytes = <<0, 97, 115, 110, 1, 0, 0, 0>>],
     capabilities |-> {}],
    [module |-> [GoodModule EXCEPT
                   !.bytes = buildWasm(<<typeSection, memSection(1, <<>>)>>)],
     capabilities |-> {}],
    [module |-> [GoodModule EXCEPT
                   !.bytes = buildWasm(<<memSection(1,
                                leb128u(DEFAULT_MAX_MEMORY_PAGES + 1))>>)],
     capabilities |-> {}],
    [module |-> [GoodModule EXCEPT !.imports = <<"storage_get">>],
     capabilities |-> {}],
    [module |-> [GoodModule EXCEPT
                   !.imports = <<"storage_get">>,
                   !.bytes = buildWasm(<<memSection(1,
                                leb128u(DEFAULT_MAX_MEMORY_PAGES))>>)],
     capabilities |-> {"storage:local"}],
    [module |-> [GoodModule EXCEPT !.entry = FALSE], capabilities |-> {}],
    [module |-> [GoodModule EXCEPT !.traps = TRUE], capabilities |-> {}] }
NoProgram == [module |-> GoodModule, capabilities |-> {"consumed"}]

\* what a kernel callback does when it is invoked: the length of the JSON text
\* of its return value, or a throw
Returns(len) == [len |-> len, throws |-> FALSE]
Throws == [len |-> 0, throws |-> TRUE]
\* a host call of the entry function: the import it calls, the length of the
\* JSON text of its payload, and what the kernel callback will do
HostCall(import, reqLen, cb) == [import |-> import, reqLen |-> reqLen, cb |-> cb]

\* the launches with host calls the environment makes
HostPrograms ==
  { [module |-> [GoodModule EXCEPT
                   !.imports = <<"storage_get">>,
                   !.calls = <<HostCall("storage_get", 11, Returns(4)),
                               HostCall("storage_get", 11, Returns(7))>>],
     capabilities |-> {"storage:local"}],
    [module |-> [GoodModule EXCEPT
                   !.imports = <<"storage_set">>,
                   !.calls = <<HostCall("storage_set", 65524, Returns(4))>>],
     capabilities |-> {"storage:local"}],
    [module |-> [GoodModule EXCEPT
                   !.imports = <<"storage_set">>,
                   !.calls = <<HostCall("storage_set", 65525, Returns(4))>>],
     capabilities |-> {"storage:local"}],
    [module |-> [GoodModule EXCEPT
                   !.imports = <<"storage_get">>,
                   !.calls = <<HostCall("storage_get", 11, Returns(65514))>>],
     capabilities |-> {"storage:local"}],
    [module |-> [GoodModule EXCEPT
                   !.imports = <<"storage_get">>,
                   !.calls = <<HostCall("storage_get", 11, Returns(65515))>>],
     capabilities |-> {"storage:local"}],
    [module |-> [GoodModule EXCEPT
                   !.imports = <<"notify">>,
                   !.calls = <<HostCall("notify", 17, Throws)>>],
     capabilities |-> {}] }

NoMail == [type |-> "none", message |-> "none"]
NoWasmRet == [op |-> "none", appId |-> "none", ok |-> TRUE, error |-> "none"]

\* the llmos import names that start with 'storage_'
StoragePrefixed == {"storage_get", "storage_set", "storage_remove",
                    "storage_keys", "storage_dump"}

\* the capability an llmos import needs ("none": always allowed)
importToCap(importName) ==
  IF importName \in StoragePrefixed THEN "storage:local"
  ELSE IF importName = "fetch" THEN "network:http"
  ELSE "none"

\* the functions buildImports provides
buildImports(capabilities) ==
  (IF "storage:local" \in capabilities
     THEN {"storage_get", "storage_set", "storage_remove", "storage_keys"}
     ELSE {}) \cup {"notify", "cap_request"}

\* the loop over the imports of the compiled module: the first import whose
\* capability is not granted, "none" if there is none
RECURSIVE ungranted(_, _)
ungranted(requiredImports, capabilities) ==
  IF requiredImports = <<>> THEN "none"
  ELSE LET capNeeded == importToCap(Head(requiredImports))
       IN IF capNeeded # "none" /\ capNeeded \notin capabilities
            THEN Head(requiredImports)
            ELSE ungranted(Tail(requiredImports), capabilities)

\* the message of the error thrown for an import whose capability is not
\* granted
notGranted(name) ==
  "Module imports llmos." \o name \o " but capability '"
    \o importToCap(name) \o "' not granted"

\* run() up to the call of the entry function, without the check of the
\* imports against the capabilities
prepareUngated(program) ==
  LET m == program.module
      valid == validateMemorySection(m.bytes, DEFAULT_MAX_MEMORY_PAGES)
  IN
  IF valid # "ok" THEN valid
  ELSE IF ~(SeqRange(m.imports) \subseteq buildImports(program.capabilities))
         THEN "LinkError"
  ELSE IF ~m.entry THEN "no exported function"
  ELSE "ok"

\* run() up to the call of the entry function: "ok" or the error thrown
prepare(program) ==
  LET m == program.module
      caps == program.capabilities
      valid == validateMemorySection(m.bytes, DEFAULT_MAX_MEMORY_PAGES)
  IN
  IF valid # "ok" THEN valid
  ELSE IF ungranted(m.imports, caps) # "none"
         THEN notGranted(ungranted(m.imports, caps))
  ELSE IF ~(SeqRange(m.imports) \subseteq buildImports(caps))
         THEN "LinkError"
  ELSE IF ~m.entry THEN "no exported function"
  ELSE "ok"

\* run(): the one message the worker posts for a program whose entry function
\* returns from its host calls
run(program) ==
  IF prepare(program) # "ok"
    THEN [type |-> "error", message |-> prepare(program)]
  ELSE IF program.module.traps THEN [type |-> "error", message |-> "trap"]
  ELSE [type |-> "result", message |-> "none"]

\* ---- the kernel side of a host call

\* the callback _dispatchHostCall invokes for a call type
callbackOf(callType) ==
  IF callType = CALL.STORAGE_GET THEN "onStorageGet"
  ELSE IF callType = CALL.STORAGE_SET THEN "onStorageSet"
  ELSE IF callType = CALL.STORAGE_REMOVE THEN "onStorageRemove"
  ELSE IF callType = CALL.STORAGE_KEYS THEN "onStorageKeys"
  ELSE IF callType = CALL.NOTIFY THEN "onNotify"
  ELSE IF callType = CALL.CAP_REQUEST THEN "onCapRequest"
  ELSE "none"

\* a dispatch that invokes the callback of every call type unchecked
dispatchUnchecked(caps, callType, cb) ==
  IF callbackOf(callType) = "none"
    THEN [invoked |-> "none", ok |-> FALSE, len |-> 25,
          error |-> "Unknown host call type"]
  ELSE IF cb.throws
    THEN [invoked |-> callbackOf(callType), ok |-> FALSE, len |-> 14,
          error |-> "callback error"]
  ELSE [invoked |-> callbackOf(callType), ok |-> TRUE, len |-> cb.len,
        error |-> "none"]

\* _dispatchHostCall(appId, entry, callType, payload) with entry.capabilities
\* = caps and a callback that behaves as cb: the callback it invokes ("none":
\* no callback), and the length of the JSON text of the value it returns or
\* the message of the error it throws
_dispatchHostCall(caps, callType, cb) ==
  LET denied == [invoked |-> "none", ok |-> FALSE, len |-> 25,
                 error |-> "storage:local not granted"]
      thrown == [invoked |-> callbackOf(callType), ok |-> FALSE, len |-> 14,
                 error |-> "callback error"]
      value(len) == [invoked |-> callbackOf(callType), ok |-> TRUE,
                     len |-> len, error |-> "none"]
  IN
  IF callType \in {CALL.STORAGE_GET, CALL.STORAGE_SET, CALL.STORAGE_REMOVE,
                   CALL.STORAGE_KEYS}
    THEN IF "storage:local" \notin caps THEN denied
         ELSE IF cb.throws THEN thrown
         ELSE IF callType \in {CALL.STORAGE_GET, CALL.STORAGE_KEYS}
                THEN value(cb.len)
         ELSE value(4)
  ELSE IF callType = CALL.NOTIFY
    THEN IF cb.throws THEN thrown ELSE value(4)
  ELSE IF callType = CALL.CAP_REQUEST
    THEN IF cb.throws THEN thrown ELSE value(cb.len)
  ELSE [invoked |-> "none", ok |-> FALSE, len |-> 25,
        error |-> "Unknown host call type"]

\* the response _handleHostCall builds for a dispatch result: the bytes of
\* {"value":...} or of {"error":"..."}
responseOf(result) ==
  [kind |-> IF result.ok THEN "response" ELSE "error",
   len |-> IF result.ok THEN result.len + 10 ELSE result.len + 12]

\* ---- the worker side of a host call

\* the call type the import function passes to makeHostCall
callTypeOf(import) ==
  IF import = "storage_get" THEN CALL.STORAGE_GET
  ELSE IF import = "storage_set" THEN CALL.STORAGE_SET
  ELSE IF import = "storage_remove" THEN CALL.STORAGE_REMOVE
  ELSE IF import = "storage_keys" THEN CALL.STORAGE_KEYS
  ELSE IF import = "notify" THEN CALL.NOTIFY
  ELSE CALL.CAP_REQUEST

\* a fresh SharedArrayBuffer: all zero
NoData == [kind |-> "none", len |-> 0, cb |-> Throws, seq |-> 0]
FreshBuffer == [state |-> STATE_IDLE, callType |-> 0, dataLen |-> 0,
                data |-> NoData]
NoResult == [invoked |-> "none", ok |-> TRUE, len |-> 0, error |-> "none"]

WasmInit ==
  /\ apps = EmptyMap
  /\ launches = <<>>
  /\ wasmRet = NoWasmRet
  /\ tenants = {"w1"}
  /\ catalog = Programs
  /\ launchLimit = MaxLaunches

HostInit ==
  /\ apps = EmptyMap
  /\ launches = <<>>
  /\ wasmRet = NoWasmRet
  /\ tenants = {"w1"}
  /\ catalog = HostPrograms
  /\ launchLimit = MaxHostLaunches

\* reject(err) or resolve(value) on the promise of launch entry e: a settled
\* promise stays as it is
settlePromise(e, how, err) ==
  IF e.promise = "pending" THEN [e EXCEPT !.promise = how, !.error = err]
  ELSE e

\* no handler of the main thread is between two of its statements
MainThreadFree ==
  \A n \in DOMAIN launches : launches[n].kpc \in {"idle", "awaiting"}

\* launch(appId, wasmBytes, capabilities, ...)
launch(appId, program) ==
  /\ Len(launches) < launchLimit
  /\ IF appId \in DOMAIN apps
       THEN /\ wasmRet' = [op |-> "launch", appId |-> appId, ok |-> FALSE,
                           error |-> "already running"]
            /\ UNCHANGED <<apps, launches>>
       ELSE /\ launches' = Append(launches,
                 [appId |-> appId, program |-> program,
                  capabilities |-> program.capabilities, status |-> "running",
                  timeoutHandle |-> TRUE, reject |-> TRUE,
                  promise |-> "pending", error |-> "none",
                  worker |-> "running", mail |-> NoMail,
                  sharedBuffer |-> FreshBuffer,
                  todo |-> IF prepare(program) = "ok"
                             THEN program.module.calls ELSE <<>>,
                  wpc |-> "run", made |-> 0, resp |-> NoData,
                  hostMail |-> 0, kpc |-> "idle", kres |-> NoResult,
                  invoked |-> <<>>])
            /\ apps' = MapSet(apps, appId, Len(launches) + 1)
            /\ wasmRet' = [op |-> "launch", appId |-> appId, ok |-> TRUE,
                           error |-> "none"]

\* the worker of launch n reaches the end of run() and posts its message
workerPosts(n) ==
  /\ launches[n].worker = "running"
  /\ launches[n].wpc = "run" /\ launches[n].todo = <<>>
  /\ launches' = [launches EXCEPT ![n].mail = run(launches[n].program),
                                  ![n].program = NoProgram,
                                  ![n].worker = "posted"]
  /\ wasmRet' = NoWasmRet
  /\ UNCHANGED apps

\* the worker of launch n dies of an uncaught error: an 'error' event
workerErrors(n) ==
  /\ launches[n].worker = "running"
  /\ launches[n].wpc = "run"
  /\ launches' = [launches EXCEPT
                    ![n].mail = [type |-> "crash", message |-> "worker error"],
                    ![n].program = NoProgram,
                    ![n].worker = "posted"]
  /\ wasmRet' = NoWasmRet
  /\ UNCHANGED apps

\* an import function throws in launch n: the exception unwinds the entry
\* function and the catch of run() posts it
throwsToRun(e, msg) ==
  [e EXCEPT !.mail = [type |-> "error", message |-> msg],
            !.program = NoProgram, !.worker = "posted", !.todo = <<>>,
            !.wpc = "run"]

\* makeHostCall up to the write of the payload
writePayload(n) ==
  LET e == launches[n]
      c == Head(e.todo)
  IN /\ e.worker = "running" /\ e.wpc = "run" /\ e.todo # <<>>
     /\ launches' = [launches EXCEPT ![n] =
          IF c.reqLen > 65524
            THEN throwsToRun(e, "Host call payload too large")
            ELSE [e EXCEPT !.sharedBuffer.data =
                             [kind |-> "request", len |-> c.reqLen,
                              cb |-> c.cb, seq |-> e.made + 1],
                           !.made = e.made + 1,
                           !.wpc = "wrote payload"]]
     /\ wasmRet' = NoWasmRet
     /\ UNCHANGED apps

\* Atomics.store(i32, 2, bytes.length)
storeDataLen(n) ==
  LET e == launches[n]
  IN /\ e.worker = "running" /\ e.wpc = "wrote payload"
     /\ launches' = [launches EXCEPT
                       ![n].sharedBuffer.dataLen = Head(e.todo).reqLen,
                       ![n].wpc = "stored dataLen"]
     /\ wasmRet' = NoWasmRet
     /\ UNCHANGED apps

\* Atomics.store(i32, 1, callType)
storeCallType(n) ==
  LET e == launches[n]
  IN /\ e.worker = "running" /\ e.wpc = "stored dataLen"
     /\ launches' = [launches EXCEPT
                       ![n].sharedBuffer.callType =
                          callTypeOf(Head(e.todo).import),
                       ![n].wpc = "stored callType"]
     /\ wasmRet' = NoWasmRet
     /\ UNCHANGED apps

\* Atomics.store(i32, 0, STATE_PENDING)
storePending(n) ==
  LET e == launches[n]
  IN /\ e.worker = "running" /\ e.wpc = "stored callType"
     /\ launches' = [launches EXCEPT
                       ![n].sharedBuffer.state = STATE_PENDING,
                       ![n].wpc = "stored PENDING"]
     /\ wasmRet' = NoWasmRet
     /\ UNCHANGED apps

\* parentPort.postMessage({ type: 'host-call' })
postHostCall(n) ==
  LET e == launches[n]
  IN /\ e.worker = "running" /\ e.wpc = "stored PENDING"
     /\ launches' = [launches EXCEPT ![n].hostMail = e.hostMail + 1,
                                     ![n].wpc = "posted"]
     /\ wasmRet' = NoWasmRet
     /\ UNCHANGED apps

\* Atomics.wait(i32, 0, STATE_PENDING): returns at once when the state is not
\* PENDING, parks the worker otherwise
atomicsWait(n) ==
  LET e == launches[n]
  IN /\ e.worker = "running" /\ e.wpc = "posted"
     /\ launches' = [launches EXCEPT ![n].wpc =
          IF e.sharedBuffer.state # STATE_PENDING THEN "woken" ELSE "parked"]
     /\ wasmRet' = NoWasmRet
     /\ UNCHANGED apps

\* the worker reads the response: respLen, the bytes, JSON.parse
readResponse(n) ==
  LET e == launches[n]
      sab == e.sharedBuffer
  IN /\ e.worker = "running" /\ e.wpc = "woken"
     /\ launches' = [launches EXCEPT ![n] =
          IF sab.dataLen # sab.data.len
            THEN throwsToRun(e, "SyntaxError")
            ELSE [e EXCEPT !.resp = sab.data, !.wpc = "read response"]]
     /\ wasmRet' = NoWasmRet
     /\ UNCHANGED apps

\* Atomics.store(i32, 0, STATE_IDLE) and the end of makeHostCall
storeIdle(n) ==
  LET e == launches[n]
      idle == [e EXCEPT !.sharedBuffer.state = STATE_IDLE, !.resp = NoData]
  IN /\ e.worker = "running" /\ e.wpc = "read response"
     /\ launches' = [launches EXCEPT ![n] =
          IF e.resp.kind = "error"
            THEN throwsToRun(idle, "host call error")
            ELSE [idle EXCEPT !.todo = Tail(e.todo), !.wpc = "run"]]
     /\ wasmRet' = NoWasmRet
     /\ UNCHANGED apps

\* the 'host-call' message of launch n reaches the main thread:
\* _handleHostCall up to the await of _dispatchHostCall
handleHostCall(n) ==
  LET e == launches[n]
      sab == e.sharedBuffer
      result == _dispatchHostCall(e.capabilities, sab.callType, sab.data.cb)
  IN /\ e.hostMail > 0 /\ e.kpc = "idle"
     /\ launches' = [launches EXCEPT ![n] =
          IF sab.dataLen # sab.data.len \/ sab.data.kind # "request"
            THEN [e EXCEPT !.hostMail = e.hostMail - 1]
            ELSE [e EXCEPT !.hostMail = e.hostMail - 1,
                           !.kpc = "awaiting",
                           !.kres = result,
                           !.invoked =
                              IF result.invoked = "none" THEN e.invoked
                              ELSE Append(e.invoked, result.invoked)]]
     /\ wasmRet' = NoWasmRet
     /\ UNCHANGED apps

\* _handleHostCall after the await: u8.set of the response bytes, which
\* throws a RangeError when they do not fit behind SAB_DATA_START
writeResponse(n) ==
  LET e == launches[n]
  IN /\ e.kpc = "awaiting"
     /\ launches' = [launches EXCEPT ![n] =
          IF responseOf(e.kres).len > SAB_SIZE - SAB_DATA_START
            THEN [e EXCEPT !.kpc = "idle", !.kres = NoResult]
            ELSE [e EXCEPT !.sharedBuffer.data =
                             [kind |-> responseOf(e.kres).kind,
                              len |-> responseOf(e.kres).len, cb |-> Throws,
                              seq |-> e.sharedBuffer.data.seq],
                           !.kpc = "wrote response"]]
     /\ wasmRet' = NoWasmRet
     /\ UNCHANGED apps

\* Atomics.store(i32, 2, respBytes.length)
storeRespLen(n) ==
  LET e == launches[n]
  IN /\ e.kpc = "wrote response"
     /\ launches' = [launches EXCEPT
                       ![n].sharedBuffer.dataLen = responseOf(e.kres).len,
                       ![n].kpc = "stored dataLen"]
     /\ wasmRet' = NoWasmRet
     /\ UNCHANGED apps

\* Atomics.store(i32, 0, STATE_READY)
storeReady(n) ==
  LET e == launches[n]
  IN /\ e.kpc = "stored dataLen"
     /\ launches' = [launches EXCEPT
                       ![n].sharedBuffer.state = STATE_READY,
                       ![n].kpc = "stored READY"]
     /\ wasmRet' = NoWasmRet
     /\ UNCHANGED apps

\* Atomics.notify(i32, 0, 1): wakes the worker if it is parked
atomicsNotify(n) ==
  LET e == launches[n]
  IN /\ e.kpc = "stored READY"
     /\ launches' = [launches EXCEPT
                       ![n].wpc = IF e.wpc = "parked" /\ e.worker = "running"
                                    THEN "woken" ELSE e.wpc,
                       ![n].kpc = "idle", ![n].kres = NoResult]
     /\ wasmRet' = NoWasmRet
     /\ UNCHANGED apps

\* the handlers of 'error' messages and 'error' events with the entry left in
\* the table
onFailureKeepsEntry(n) ==
  /\ launches' = [launches EXCEPT
       ![n] = [settlePromise(launches[n], "rejected", launches[n].mail.message)
                 EXCEPT !.timeoutHandle = FALSE, !.status = "failed",
                        !.reject = FALSE, !.mail = NoMail]]
  /\ UNCHANGED apps

\* the handlers of 'error' messages and 'error' events of launch n
onFailure(n) ==
  /\ launches' = [launches EXCEPT
       ![n] = [settlePromise(launches[n], "rejected", launches[n].mail.message)
                 EXCEPT !.timeoutHandle = FALSE, !.status = "failed",
                        !.reject = FALSE, !.mail = NoMail]]
  /\ apps' = MapDelete(apps, launches[n].appId)

\* the handler of the 'result' message of launch n
onResult(n) ==
  /\ launches' = [launches EXCEPT
       ![n] = [settlePromise(launches[n], "resolved", "none")
                 EXCEPT !.timeoutHandle = FALSE, !.status = "done",
                        !.reject = FALSE, !.mail = NoMail]]
  /\ apps' = MapDelete(apps, launches[n].appId)

\* the message or error event of launch n's worker reaches the main thread,
\* also after the worker was terminated
delivered(n) ==
  /\ launches[n].mail # NoMail
  /\ IF launches[n].mail.type = "result" THEN onResult(n) ELSE onFailure(n)
  /\ wasmRet' = NoWasmRet

\* a terminated worker's message is never delivered
mailLost(n) ==
  /\ launches[n].mail # NoMail
  /\ launches[n].worker = "terminated"
  /\ launches' = [launches EXCEPT ![n].mail = NoMail]
  /\ wasmRet' = NoWasmRet
  /\ UNCHANGED apps

\* the CPU timer with the entry left in the table
cpuTimeoutKeepsApp(n) ==
  /\ launches[n].timeoutHandle
  /\ launches' = [launches EXCEPT
       ![n] = IF launches[n].status = "running"
                THEN [settlePromise(launches[n], "rejected", "CPU timeout")
                        EXCEPT !.timeoutHandle = FALSE, !.status = "killed",
                               !.reject = FALSE, !.worker = "terminated"]
                ELSE [launches[n] EXCEPT !.timeoutHandle = FALSE]]
  /\ wasmRet' = NoWasmRet
  /\ UNCHANGED apps

\* the CPU timer of launch n fires
cpuTimeout(n) ==
  /\ launches[n].timeoutHandle
  /\ IF launches[n].status = "running"
       THEN /\ launches' = [launches EXCEPT
                 ![n] = [settlePromise(launches[n], "rejected", "CPU timeout")
                           EXCEPT !.timeoutHandle = FALSE, !.status = "killed",
                                  !.reject = FALSE, !.worker = "terminated"]]
            /\ apps' = MapDelete(apps, launches[n].appId)
       ELSE /\ launches' = [launches EXCEPT ![n].timeoutHandle = FALSE]
            /\ UNCHANGED apps
  /\ wasmRet' = NoWasmRet

\* the entry of launch n after kill() has dealt with it
killed(e) ==
  [(IF e.reject THEN settlePromise(e, "rejected", "was killed") ELSE e)
     EXCEPT !.timeoutHandle = FALSE, !.status = "killed", !.reject = FALSE,
            !.worker = "terminated"]

\* kill(appId)
kill(appId) ==
  /\ IF appId \notin DOMAIN apps
       THEN /\ wasmRet' = [op |-> "kill", appId |-> appId, ok |-> FALSE,
                           error |-> "none"]
            /\ UNCHANGED <<apps, launches>>
       ELSE /\ launches' = [launches EXCEPT
                              ![apps[appId]] = killed(launches[apps[appId]])]
            /\ apps' = MapDelete(apps, appId)
            /\ wasmRet' = [op |-> "kill", appId |-> appId, ok |-> TRUE,
                           error |-> "none"]

\* killAll(): kill every app of the table
killAll ==
  /\ launches' = [n \in DOMAIN launches |->
                    IF \E a \in DOMAIN apps : apps[a] = n
                      THEN killed(launches[n]) ELSE launches[n]]
  /\ apps' = EmptyMap
  /\ wasmRet' = [op |-> "killAll", appId |-> "none", ok |-> TRUE,
                 error |-> "none"]

WasmFrame ==
  UNCHANGED <<tenants, catalog, launchLimit, schedVars, capVars, storeVars,
              dockerVars,
              serverVars, labVars>>

WasmNext ==
  \/ \E a \in tenants, p \in catalog : launch(a, p) /\ WasmFrame
  \/ \E n \in DOMAIN launches : workerPosts(n) /\ WasmFrame
  \/ \E n \in DOMAIN launches : workerErrors(n) /\ WasmFrame
  \/ \E n \in DOMAIN launches : delivered(n) /\ WasmFrame
  \/ \E n \in DOMAIN launches : mailLost(n) /\ WasmFrame
  \/ \E n \in DOMAIN launches : cpuTimeout(n) /\ WasmFrame
  \/ \E a \in tenants : kill(a) /\ WasmFrame
  \/ killAll /\ WasmFrame

\* the sandbox with modules that make host calls: the steps of the main
\* thread wait for the handler that is between two of its statements
HostNext ==
  \/ MainThreadFree /\ WasmNext
  \/ \E n \in DOMAIN launches : writePayload(n) /\ WasmFrame
  \/ \E n \in DOMAIN launches : storeDataLen(n) /\ WasmFrame
  \/ \E n \in DOMAIN launches : storeCallType(n) /\ WasmFrame
  \/ \E n \in DOMAIN launches : storePending(n) /\ WasmFrame
  \/ \E n \in DOMAIN launches : postHostCall(n) /\ WasmFrame
  \/ \E n \in DOMAIN launches : atomicsWait(n) /\ WasmFrame
  \/ \E n \in DOMAIN launches : readResponse(n) /\ WasmFrame
  \/ \E n \in DOMAIN launches : storeIdle(n) /\ WasmFrame
  \/ \E n \in DOMAIN launches :
        MainThreadFree /\ handleHostCall(n) /\ WasmFrame
  \/ \E n \in DOMAIN launches :
        MainThreadFree /\ writeResponse(n) /\ WasmFrame
  \/ \E n \in DOMAIN launches : storeRespLen(n) /\ WasmFrame
  \/ \E n \in DOMAIN launches : storeReady(n) /\ WasmFrame
  \/ \E n \in DOMAIN launches : atomicsNotify(n) /\ WasmFrame

-----------------------------------------------------------------------------
(* Functions applied to an input the environment chooses *)

\* input: <<x>> for the chosen input x; output: <<>> until the function is
\* applied, then <<y>> for its result y
LabInit == input = <<>> /\ output = <<>>

LabFrame ==
  UNCHANGED <<input, schedVars, capVars, storeVars, dockerVars, wasmVars,
              serverVars>>

\* ---- validateMemorySection

\* memories a memory section declares
MaxMemories == 2
DEFAULT_MEMORY_PAGES == 16

\* the encoded maximum of a memory; <<>>: the memory has no maximum
Maxima == { <<>>, leb128u(DEFAULT_MEMORY_PAGES),
            leb128u(DEFAULT_MAX_MEMORY_PAGES),
            leb128u(DEFAULT_MAX_MEMORY_PAGES + 1), leb128u(65536),
            <<255, 255, 255, 255, 7>>, Leb2p31, LebMaxU32 }

SeqsUpTo(S, n) == UNION { [1..k -> S] : k \in 0..n }

\* a memory section with one memory of one initial page for every maximum
memSections(maxima) ==
  section(5, leb128u(Len(maxima))
             \o Concat([i \in 1..Len(maxima) |-> memoryEntry(1, maxima[i])]))

ValidateInit ==
  /\ input \in { <<[maxima |-> ms, maxPagesAllowed |-> p]>> :
                   ms \in SeqsUpTo(Maxima, MaxMemories),
                   p \in {DEFAULT_MEMORY_PAGES, DEFAULT_MAX_MEMORY_PAGES} }
  /\ output = <<>>

\* run(), step 1
validate ==
  /\ output = <<>>
  /\ output' = <<validateMemorySection(
                   buildWasm(<<typeSection, memSections(input[1].maxima)>>),
                   input[1].maxPagesAllowed)>>
  /\ LabFrame

ValidateNext == validate

\* ---- run

\* imports of a module
MaxImports == 2
ImportNames == {"storage_get", "storage_dump", "fetch", "notify",
                "cap_request"}

RunInit ==
  /\ input \in { <<[module |-> [GoodModule EXCEPT !.imports = is],
                    capabilities |-> caps]>> :
                   is \in SeqsUpTo(ImportNames, MaxImports),
                   caps \in SUBSET {"storage:local", "network:http"} }
  /\ output = <<>>

\* run() of the worker
runs ==
  /\ output = <<>>
  /\ output' = <<run(input[1])>>
  /\ LabFrame

RunNext == runs

\* ---- _dispatchHostCall

\* the call types the kernel is asked to dispatch: 1..MaxCallType
MaxCallType == 7

DispatchInit ==
  /\ input \in { <<[capabilities |-> caps, callType |-> t, cb |-> cb]>> :
                   caps \in SUBSET {"storage:local", "network:http",
                                    "ui:window"},
                   t \in 1..MaxCallType,
                   cb \in {Returns(4), Throws} }
  /\ output = <<>>

\* _handleHostCall on a request of the chosen call type: the dispatch and the
\* response built from its result
dispatches ==
  /\ output = <<>>
  /\ output' = <<[result |-> _dispatchHostCall(input[1].capabilities,
                                               input[1].callType,
                                               input[1].cb),
                  response |-> responseOf(
                                 _dispatchHostCall(input[1].capabilities,
                                                   input[1].callType,
                                                   input[1].cb))]>>
  /\ LabFrame

DispatchNext == dispatches

-----------------------------------------------------------------------------
(* Static analyzer *)

\* A text is a sequence of lines and a line a sequence of tokens: " " is
\* white space, the other tokens are the pieces of text the rules and the
\* exemptions look for, and "x" is any other text.

\* lines of a text under analysis
MaxLines == 2

\* one CRITICAL and one WARNING rule of each rule list; pattern is the token
\* the regular expression matches
RULES ==
  << [id |-> "EVAL_USAGE", severity |-> "CRITICAL", pattern |-> "eval("],
     [id |-> "RAW_FETCH", severity |-> "WARNING", pattern |-> "fetch("] >>

DOCKERFILE_RULES ==
  << [id |-> "DOCKERFILE_PRIVILEGED", severity |-> "CRITICAL",
      pattern |-> "--privileged"],
     [id |-> "DOCKERFILE_LATEST_TAG", severity |-> "WARNING",
      pattern |-> ":latest"] >>

\* String.prototype.trim on a line
RECURSIVE trimStart(_)
trimStart(line) ==
  IF line # <<>> /\ Head(line) = " " THEN trimStart(Tail(line)) ELSE line

RECURSIVE trimEnd(_)
trimEnd(line) ==
  IF line # <<>> /\ line[Len(line)] = " "
    THEN trimEnd(SubSeq(line, 1, Len(line) - 1)) ELSE line

trim(line) == trimEnd(trimStart(line))

\* the positions of a line where the pattern matches
matchesIn(line, pattern) == { i \in 1..Len(line) : line[i] = pattern }

Repeat(x, n) == [i \in 1..n |-> x]

\* the lines analyze skips
skipCodeLine(line) ==
  \/ line # <<>> /\ Head(line) = "<!--" /\ "capabilities" \in SeqRange(line)
  \/ "// LLM-OS SDK" \in SeqRange(line)

\* the lines analyzeDockerfile skips
skipRecipeLine(line) == line # <<>> /\ Head(line) = "#"

\* skipLine(trimmed), for the callback each caller of runRules passes
skipLine(callback, trimmed) ==
  IF callback = "analyze" THEN skipCodeLine(trimmed)
  ELSE skipRecipeLine(trimmed)

\* the findings of one rule: the loop over the matches of its pattern
ruleFindings(code, rule, callback) ==
  Concat([lineNum \in 1..Len(code) |->
            IF skipLine(callback, trim(code[lineNum])) THEN <<>>
            ELSE Repeat([rule |-> rule.id, severity |-> rule.severity,
                         line |-> lineNum],
                        Cardinality(matchesIn(code[lineNum], rule.pattern)))])

countOf(findings, severity) ==
  Cardinality({ i \in 1..Len(findings) : findings[i].severity = severity })

runRules(code, rules, callback) ==
  LET findings == Concat([r \in 1..Len(rules) |->
                            ruleFindings(code, rules[r], callback)])
      criticalCount == countOf(findings, "CRITICAL")
  IN [passed |-> criticalCount = 0,
      criticalCount |-> criticalCount,
      warningCount |-> countOf(findings, "WARNING"),
      findings |-> findings]

analyze(code) == runRules(code, RULES, "analyze")

analyzeDockerfile(content) ==
  runRules(content, DOCKERFILE_RULES, "analyzeDockerfile")

\* the lines of the texts given to analyze
CodeLines ==
  { <<>>, <<"x">>, <<"eval(">>, <<"fetch(">>,
    <<"<!--", "capabilities", "-->">>,
    <<" ", "<!--", "capabilities", "-->", "eval(">>,
    <<"x", "<!--", "capabilities", "-->", "eval(">>,
    <<"<!--", "eval(", "-->">>,
    <<"<!--", "capabilities", "eval(", "-->">>,
    <<"// LLM-OS SDK">>,
    <<"eval(", "// LLM-OS SDK">>,
    <<"fetch(", "fetch(", "// LLM-OS SDK">>,
    <<"eval(", "eval(", "fetch(">> }

AnalyzeInit ==
  /\ input \in { <<code>> : code \in SeqsUpTo(CodeLines, MaxLines) }
  /\ output = <<>>

\* POST /api/analyze
analyzes ==
  /\ output = <<>>
  /\ output' = <<analyze(input[1])>>
  /\ LabFrame

AnalyzeNext == analyzes

-----------------------------------------------------------------------------
(* LLM gateway (src/src/kernel/gateway.js) *)

\* A prompt is the sequence of its words, in lower case. The patterns of the
\* gateway are alternations of words; a pattern is held as the set of its
\* alternatives and matches a prompt that has one of them as a word (the
\* prompts below have no word that contains an alternative as a proper part).
test(pattern, prompt) == \E i \in 1..Len(prompt) : prompt[i] \in pattern

SPECIFICITY_SIGNALS ==
  <<{"button", "input", "form", "list", "table", "grid", "card", "modal",
     "dropdown", "slider", "toggle"},
    {"timer", "counter", "clock", "calculator", "calendar", "chart", "graph",
     "todo", "note", "editor"},
    {"sort", "filter", "search", "drag", "resize", "animate", "save", "load",
     "export", "import"},
    {"sidebar", "header", "footer", "column", "row", "tab", "panel", "split"}>>

CAPABILITY_HINTS ==
  <<{"storage", "store", "storing"},
    {"timer", "interval", "timeout", "countdown"},
    {"clipboard", "copy", "paste"},
    {"network", "fetch", "api", "http"}>>

COMPLEX_KEYWORDS ==
  {"database", "api", "auth", "websocket", "real-time", "chart", "graph",
   "machine learning", "encrypt", "oauth", "multi-page", "routing",
   "drag and drop", "canvas", "webgl", "3d", "animation", "spreadsheet",
   "rich text editor", "code editor", "ide"}

\* VAGUE_PATTERNS.some(p => p.test(prompt.trim()))
isVague(prompt) ==
  \/ /\ Len(prompt) = 2
     /\ prompt[1] \in {"make", "build", "create"}
     /\ prompt[2] \in {"something", "stuff"}
  \/ /\ Len(prompt) = 3
     /\ prompt[1] \in {"make", "build", "create"}
     /\ <<prompt[2], prompt[3]>> \in
          {<<"a", "thing">>, <<"a", "app">>, <<"an", "app">>}
  \/ Len(prompt) >= 2 /\ prompt[1] \in {"do", "help"}
  \/ Len(prompt) >= 3 /\ prompt[1] = "can" /\ prompt[2] = "you"
  \/ Len(prompt) >= 1 /\ prompt[1] \in {"idk", "idc", "whatever", "anything"}
  \/ Len(prompt) >= 2 /\ prompt[1] = "surprise" /\ prompt[2] = "me"

\* prompt.trim().split(/\s+/).length: the empty prompt splits into one word
wordCount(prompt) == IF prompt = <<>> THEN 1 ELSE Len(prompt)

\* how many of the patterns match the prompt
hits(patterns, prompt) ==
  Cardinality({i \in 1..Len(patterns) : test(patterns[i], prompt)})

\* scoreConfidence(prompt).score in hundredths. The components are held in
\* hundredths and the weights in hundredths, so the weighted sum is in ten
\* thousandths; Math.round(total * 100) rounds it to hundredths. (In binary
\* floating point some sums that end in 50 fall just below the half and round
\* down by one hundredth; none of them lies next to 45.)
scoreConfidence(prompt) ==
  LET length == IF wordCount(prompt) <= 2 THEN 20
                ELSE IF wordCount(prompt) <= 4 THEN 50
                ELSE IF wordCount(prompt) <= 8 THEN 70
                ELSE 100
      specificityHits == hits(SPECIFICITY_SIGNALS, prompt)
      specificity == IF specificityHits >= 2 THEN 100 ELSE specificityHits * 50
      clarity == IF isVague(prompt) THEN 10 ELSE 80
      capabilities == IF hits(CAPABILITY_HINTS, prompt) > 0 THEN 100 ELSE 50
      total == length * 25 + specificity * 35 + clarity * 25
               + capabilities * 15
  IN (total + 50) \div 100

\* generateClarifications(prompt)
generateClarifications(prompt) ==
  LET q1 == IF wordCount(prompt) <= 3 THEN <<"detail">> ELSE <<>>
      q2 == IF hits(SPECIFICITY_SIGNALS, prompt) = 0
              THEN <<"interface">> ELSE <<>>
      q3 == IF /\ ~test({"save", "store", "persist", "remember"}, prompt)
               /\ ~test({"timer", "clock", "countdown"}, prompt)
              THEN <<"sessions">> ELSE <<>>
      questions == q1 \o q2 \o q3
      atLeastOne == IF questions = <<>> THEN <<"features">> ELSE questions
  IN SubSeq(atLeastOne, 1, IF Len(atLeastOne) < 3 THEN Len(atLeastOne) ELSE 3)

\* estimateComplexity(prompt)
estimateComplexity(prompt) ==
  LET matchCount == Cardinality({kw \in COMPLEX_KEYWORDS : test({kw}, prompt)})
  IN IF matchCount >= 2 \/ wordCount(prompt) > 80 THEN "complex"
     ELSE IF matchCount >= 1 \/ wordCount(prompt) > 40 THEN "medium"
     ELSE "simple"

\* the providers Map, in insertion order
providers == <<"ollama", "claude", "openai">>
NoProvider == "null"
NoModel == "null"

\* config.routing with neither a primary nor a fallback provider
NoRouting == [primary |-> "", fallback |-> ""]

\* providers.has(name) && providers.get(name).isAvailable(...)
usable(name) == name \in SeqRange(providers) /\ name \in available

\* selectProvider(complexity)
selectProvider(complexity) ==
  IF routing.primary # "" /\ usable(routing.primary) THEN routing.primary
  ELSE IF complexity # "simple" /\ "claude" \in available THEN "claude"
  ELSE IF complexity # "simple" /\ "openai" \in available THEN "openai"
  ELSE "ollama"

\* what getBestModel returns when the resource monitor has no data
NoBest == [provider |-> NoProvider, name |-> NoModel]

\* selectBestProvider(complexity), best being what getBestModel returns;
\* "configured" is the model of the provider's config
selectBestProvider(complexity, best) ==
  IF routing.primary # "" /\ usable(routing.primary)
    THEN [provider |-> routing.primary, model |-> NoModel]
  ELSE IF best # NoBest /\ usable(best.provider)
    THEN [provider |-> best.provider,
          model |-> IF best.name # "configured" THEN best.name ELSE NoModel]
  ELSE [provider |-> selectProvider(complexity), model |-> NoModel]

\* the first provider of the Map that is available and is not the failed one
firstOther(failedProvider, i) ==
  LET others == {j \in i..Len(providers) :
                   providers[j] # failedProvider /\ providers[j] \in available}
  IN IF others = {} THEN NoProvider
     ELSE providers[CHOOSE j \in others : \A k \in others : j <= k]

\* getFallbackProvider that may hand back the provider that failed
getFallbackProviderAgain(failedProvider) ==
  IF routing.fallback # "" /\ usable(routing.fallback)
    THEN routing.fallback
  ELSE firstOther(NoProvider, 1)

\* getFallbackProvider(failedProvider)
getFallbackProvider(failedProvider) ==
  IF /\ routing.fallback # "" /\ routing.fallback # failedProvider
     /\ usable(routing.fallback)
    THEN routing.fallback
  ELSE firstOther(failedProvider, 1)

\* generate that asks for a clarification below 0.40
clarifiesBelowForty(score, force) == score < 40 /\ force # "true"

\* confidence.score < 0.45 && !skipClarification, where skipClarification
\* is options.force === true
clarifies(score, force) == score < 45 /\ force # "true"

\* the prompts, the values of options.force, the model hints and the answers
\* of getBestModel that generate is called with
GatewayPrompts ==
  {<<>>,
   <<"make", "something">>,
   <<"a", "nice", "weather", "app">>,
   <<"todo", "list">>,
   <<"show", "the", "weather", "for", "my", "town">>,
   <<"can", "you", "fetch", "the", "news", "for", "me", "every", "day">>,
   <<"a", "dashboard", "with", "a", "database", "and", "an", "api", "chart">>}
Forces == {"undefined", "true", "'yes'"}
NoHint == [provider |-> NoProvider, model |-> NoModel]
Hints == {NoHint, [provider |-> "claude", model |-> "opus"]}
Bests == {NoBest, [provider |-> "openai", name |-> "configured"],
          [provider |-> "ollama", name |-> "larger"]}
Routings ==
  {NoRouting, [primary |-> "claude", fallback |-> "openai"],
   [primary |-> "", fallback |-> "ollama"],
   [primary |-> "", fallback |-> "gemini"]}

NoGeneration ==
  [pc |-> "idle", prompt |-> <<>>, force |-> "undefined",
   providerName |-> NoProvider, modelOverride |-> NoModel, invoked |-> <<>>]
NoGatewayRet ==
  [kind |-> "none", prompt |-> <<>>, force |-> "undefined",
   questions |-> <<>>, provider |-> NoProvider, model |-> NoModel,
   invoked |-> <<>>]

\* generate(prompt, options) up to the call of the provider it selects; the
\* prompt has no model hint and nothing to sanitize left in it
generate(prompt, force, modelHint, best) ==
  /\ generation.pc = "idle"
  /\ IF clarifies(scoreConfidence(prompt), force)
       THEN /\ gatewayRet' = [NoGatewayRet EXCEPT
                                !.kind = "needsClarification",
                                !.prompt = prompt, !.force = force,
                                !.questions = generateClarifications(prompt)]
            /\ UNCHANGED generation
       ELSE LET auto == selectBestProvider(estimateComplexity(prompt), best)
                chosen == IF modelHint # NoHint /\ usable(modelHint.provider)
                            THEN modelHint ELSE auto
            IN /\ generation' =
                    [pc |-> "first", prompt |-> prompt, force |-> force,
                     providerName |-> chosen.provider,
                     modelOverride |-> chosen.model,
                     invoked |-> <<chosen.provider>>]
               /\ gatewayRet' = NoGatewayRet
  /\ UNCHANGED <<routing, available>>

\* what generate returns once the provider used has answered
generated(used, model) ==
  [NoGatewayRet EXCEPT !.kind = "code", !.prompt = generation.prompt,
                       !.force = generation.force, !.provider = used,
                       !.model = IF model # NoModel THEN model
                                 ELSE "configured",
                       !.invoked = generation.invoked]

\* what the caller of generate gets when the error of a provider is thrown
thrown ==
  [NoGatewayRet EXCEPT !.kind = "error", !.prompt = generation.prompt,
                       !.force = generation.force,
                       !.provider = generation.providerName,
                       !.invoked = generation.invoked]

\* the provider selected answers: generate returns its code, or on a failure
\* asks getFallbackProvider for another provider and calls it
providerAnswers(ok) ==
  /\ generation.pc = "first"
  /\ IF ok
       THEN /\ gatewayRet' = generated(generation.providerName,
                                       generation.modelOverride)
            /\ generation' = NoGeneration
       ELSE LET fb == getFallbackProvider(generation.providerName)
            IN IF fb # NoProvider
                 THEN /\ generation' =
                           [generation EXCEPT !.pc = "fallback",
                              !.providerName = fb, !.modelOverride = NoModel,
                              !.invoked = Append(@, fb)]
                      /\ UNCHANGED gatewayRet
                 ELSE /\ gatewayRet' = thrown
                      /\ generation' = NoGeneration
  /\ UNCHANGED <<routing, available>>

\* the fallback provider answers: generate returns its code or throws
fallbackAnswers(ok) ==
  /\ generation.pc = "fallback"
  /\ gatewayRet' = IF ok THEN generated(generation.providerName, NoModel)
                   ELSE thrown
  /\ generation' = NoGeneration
  /\ UNCHANGED <<routing, available>>

GatewayFrame ==
  UNCHANGED <<registry, images, serverRet, registryFile, sync, schedVars,
              capVars, storeVars, dockerVars, wasmVars, labVars, profileVars, exitLog,
              appResults>>

GatewayNext ==
  \/ \E prompt \in GatewayPrompts, force \in Forces, modelHint \in Hints,
        best \in Bests :
       generate(prompt, force, modelHint, best) /\ GatewayFrame
  \/ \E ok \in BOOLEAN : providerAnswers(ok) /\ GatewayFrame
  \/ \E ok \in BOOLEAN : fallbackAnswers(ok) /\ GatewayFrame

-----------------------------------------------------------------------------
(* OS profile (src/src/kernel/profile.js) *)

\* what a profile file can be: absent, without a top-level mode line
\* ("none"), or with one
Files == {"absent", "none", "ephemeral", "solidified"}
SnapshotApps == {"a", "b"}
NoProfileRet == [op |-> "none", mode |-> "none", value |-> "none"]

\* merge(DEFAULTS, parseSimpleYaml(raw)).mode
modeOf(file) == IF file = "none" THEN "ephemeral" ELSE file

\* loadProfile().mode when nothing is cached in _profile
readProfile(file) ==
  IF file # "absent" THEN modeOf(file)
  ELSE IF exampleFile # "absent" THEN modeOf(exampleFile)
  ELSE "ephemeral"

\* loadProfile().mode
loadProfile ==
  IF cachedProfile # "null" THEN cachedProfile ELSE readProfile(profileFile)

\* setProfileMode(mode): rewrites the mode line of an existing profile.yaml,
\* then reloads the cached profile
setProfileMode(mode) ==
  /\ profileFile' = IF profileFile # "absent" THEN mode ELSE profileFile
  /\ cachedProfile' = readProfile(profileFile')

\* isSolidified()
isSolidified == loadProfile = "solidified" /\ "meta.json" \in snapshot

\* solidify()
solidify ==
  /\ snapshot' = snapshot \cup {"meta.json"}
  /\ setProfileMode("solidified")
  /\ profileRet' = [op |-> "solidify", mode |-> "solidified", value |-> "none"]
  /\ UNCHANGED exampleFile

\* goEphemeral(clearSnapshot)
goEphemeral(clearSnapshot) ==
  /\ snapshot' = IF clearSnapshot THEN {} ELSE snapshot
  /\ setProfileMode("ephemeral")
  /\ profileRet' = [op |-> "goEphemeral", mode |-> "ephemeral", value |-> "none"]
  /\ UNCHANGED exampleFile

\* snapshotApp(appId, code, prompt)
snapshotApp(appId) ==
  /\ snapshot' = snapshot \cup {appId}
  /\ profileRet' = [op |-> "snapshotApp", mode |-> "none", value |-> "none"]
  /\ UNCHANGED <<profileFile, exampleFile, cachedProfile>>

\* snapshotShell(html)
snapshotShell ==
  /\ snapshot' = snapshot \cup {"shell.html"}
  /\ profileRet' = [op |-> "snapshotShell", mode |-> "none", value |-> "none"]
  /\ UNCHANGED <<profileFile, exampleFile, cachedProfile>>

\* loadSnapshotApp(appId)
loadSnapshotApp(appId) ==
  /\ cachedProfile' = loadProfile
  /\ profileRet' = [op |-> "loadSnapshotApp", mode |-> "none",
                    value |-> IF loadProfile # "solidified" THEN "null"
                              ELSE IF appId \notin snapshot THEN "null"
                              ELSE appId]
  /\ UNCHANGED <<profileFile, exampleFile, snapshot>>

\* loadSnapshotShell()
loadSnapshotShell ==
  /\ cachedProfile' = loadProfile
  /\ profileRet' = [op |-> "loadSnapshotShell", mode |-> "none",
                    value |-> IF loadProfile # "solidified" THEN "null"
                              ELSE IF "shell.html" \notin snapshot THEN "null"
                              ELSE "shell.html"]
  /\ UNCHANGED <<profileFile, exampleFile, snapshot>>

\* reloadProfile()
reloadProfile ==
  /\ cachedProfile' = readProfile(profileFile)
  /\ profileRet' = [op |-> "reloadProfile", mode |-> cachedProfile', value |-> "none"]
  /\ UNCHANGED <<profileFile, exampleFile, snapshot>>

\* the user writes data/profile.yaml
profileEdited(file) ==
  /\ file # "absent"
  /\ file # profileFile
  /\ profileFile' = file
  /\ profileRet' = NoProfileRet
  /\ UNCHANGED <<exampleFile, cachedProfile, snapshot>>

ProfileFrame ==
  UNCHANGED <<registry, images, serverRet, registryFile, sync, gatewayVars,
              schedVars, capVars, storeVars, dockerVars, wasmVars, labVars, exitLog,
              appResults>>

ProfileNext ==
  \/ solidify /\ ProfileFrame
  \/ \E c \in BOOLEAN : goEphemeral(c) /\ ProfileFrame
  \/ \E a \in SnapshotApps : snapshotApp(a) /\ ProfileFrame
  \/ snapshotShell /\ ProfileFrame
  \/ \E a \in SnapshotApps : loadSnapshotApp(a) /\ ProfileFrame
  \/ loadSnapshotShell /\ ProfileFrame
  \/ reloadProfile /\ ProfileFrame
  \/ \E f \in Files : profileEdited(f) /\ ProfileFrame

-----------------------------------------------------------------------------
(* Registry and the server paths that build and publish *)

\* entries the scheduled task lets the registry grow to
maxRegistryApps == 2
\* launches the environment records for an entry
MaxEntryLaunches == 2
\* the number of 16-digit hashes
HashSpace == 2

\* the number a token adds to the digest
tokenCode(token) ==
  IF token = "x" THEN 1 ELSE IF token = "eval(" THEN 2
  ELSE IF token = "fetch(" THEN 3 ELSE IF token = " " THEN 5 ELSE 7

\* the digest of a text: every token and every line end counts
RECURSIVE digestLine(_, _)
digestLine(line, h) ==
  IF line = <<>> THEN h
  ELSE digestLine(Tail(line), (h * 3 + tokenCode(Head(line))) % 64)

RECURSIVE digest(_, _)
digest(code, h) ==
  IF code = <<>> THEN h
  ELSE digest(Tail(code), (digestLine(Head(code), h) * 3 + 11) % 64)

\* contentHash(code): the first 16 digits of the digest
contentHash(code) == digest(code, 0) % HashSpace

\* the code the clients and the generator come up with
Snippets ==
  { << <<"x">> >>, << <<"eval(">> >>, << <<"fetch(">> >>,
    << <<"x">>, <<"x">> >> }

Prompts == {"make a timer", "build a game"}

\* the container recipes the clients send
Recipes ==
  { << <<"FROM", ":latest">> >>,
    << <<"FROM">>, <<"RUN", "--privileged">> >>,
    << <<"FROM">>, <<"#", "--privileged">> >> }

NoServerRet == [op |-> "none", status |-> 200, existing |-> FALSE,
                hash |-> 0 - 1]

\* no syncCommunity call is running
NoSync == [pc |-> "idle", index |-> <<>>, meta |-> 0 - 1, added |-> 0]

ServerInit ==
  /\ registry = EmptyMap
  /\ images = {}
  /\ serverRet = NoServerRet
  /\ registryFile = EmptyMap
  /\ sync = NoSync
  /\ routing = NoRouting
  /\ available = {"ollama"}
  /\ generation = NoGeneration
  /\ gatewayRet = NoGatewayRet
  /\ profileFile = "absent"
  /\ exampleFile = "absent"
  /\ cachedProfile = "null"
  /\ snapshot = {}
  /\ profileRet = NoProfileRet
  /\ exitLog = <<>>
  /\ appResults = EmptyMap

\* publishApp({ prompt, code, ... }): the registry and the result
publishApp(data) ==
  LET hash == contentHash(data.code)
  IN IF hash \in DOMAIN registry
       THEN [apps |-> [registry EXCEPT ![hash].launches = @ + 1],
             hash |-> hash, existing |-> TRUE]
       ELSE [apps |-> MapSet(registry, hash,
                        [hash |-> hash, prompt |-> data.prompt,
                         code |-> data.code, type |-> "iframe",
                         launches |-> 1, spec |-> "generated",
                         rating |-> <<>>, source |-> "local"]),
             hash |-> hash, existing |-> FALSE]

\* an entry's launch count stays within what the environment records
Countable(code) ==
  contentHash(code) \in DOMAIN registry =>
    registry[contentHash(code)].launches < MaxEntryLaunches

\* POST /api/registry/publish
apiRegistryPublish(data) ==
  /\ Countable(data.code)
  /\ registry' = publishApp(data).apps
  /\ serverRet' = [op |-> "publish", status |-> 200,
                   existing |-> publishApp(data).existing,
                   hash |-> publishApp(data).hash]
  /\ registryFile' = registry'
  /\ UNCHANGED <<images, sync>>

\* the value of analysis.blocked in the generate-apps handler: the result of
\* analyze has no such field, and undefined is falsy
blocked(analysis) ==
  IF "blocked" \in DOMAIN analysis THEN analysis.blocked ELSE FALSE

\* one prompt of the generate-apps handler, for which the generator returns
\* code
generateApps(prompt, code) ==
  /\ Cardinality(DOMAIN registry) < maxRegistryApps
  /\ Countable(code)
  /\ IF blocked(analyze(code))
       THEN /\ serverRet' = [op |-> "generate", status |-> 400,
                             existing |-> FALSE, hash |-> contentHash(code)]
            /\ UNCHANGED <<registry, registryFile>>
       ELSE /\ registry' = publishApp([prompt |-> prompt, code |-> code]).apps
            /\ serverRet' = [op |-> "generate", status |-> 200,
                             existing |->
                               publishApp([prompt |-> prompt,
                                           code |-> code]).existing,
                             hash |-> contentHash(code)]
            /\ registryFile' = registry'
  /\ UNCHANGED <<images, sync>>

\* recordLaunch(hash)
recordLaunch(hash) ==
  /\ hash \in DOMAIN registry
  /\ registry[hash].launches < MaxEntryLaunches
  /\ registry' = [registry EXCEPT ![hash].launches = @ + 1]
  /\ serverRet' = [op |-> "launch", status |-> 200, existing |-> TRUE,
                   hash |-> hash]
  /\ registryFile' = registry'
  /\ UNCHANGED <<images, sync>>

\* deleteApp(hash)
deleteApp(hash) ==
  /\ hash \in DOMAIN registry
  /\ registry' = MapDelete(registry, hash)
  /\ serverRet' = [op |-> "delete", status |-> 200, existing |-> TRUE,
                   hash |-> hash]
  /\ registryFile' = registry'
  /\ UNCHANGED <<images, sync>>

\* POST /api/process/build
apiProcessBuild(dockerfile) ==
  /\ IF ~analyzeDockerfile(dockerfile).passed
       THEN /\ serverRet' = [op |-> "build", status |-> 400,
                             existing |-> FALSE, hash |-> 0 - 1]
            /\ UNCHANGED images
       ELSE /\ images' = images \cup {dockerfile}
            /\ serverRet' = [op |-> "build", status |-> 200,
                             existing |-> FALSE, hash |-> 0 - 1]
  /\ UNCHANGED <<registry, registryFile, sync>>

\* ratings the environment gives
MaxRatings == 1

\* updateSpec(hash, spec)
updateSpec(hash, spec) ==
  /\ hash \in DOMAIN registry
  /\ registry' = [registry EXCEPT ![hash].spec = spec]
  /\ registryFile' = registry'
  /\ serverRet' = [op |-> "updateSpec", status |-> 200, existing |-> TRUE,
                   hash |-> hash]
  /\ UNCHANGED <<images, sync>>

\* the ratings in the registry
RECURSIVE ratingsGiven(_)
ratingsGiven(hashes) ==
  IF hashes = {} THEN 0
  ELSE LET h == CHOOSE x \in hashes : TRUE
       IN (IF registry[h].rating = <<>> THEN 0
           ELSE registry[h].rating[1] + registry[h].rating[2])
          + ratingsGiven(hashes \ {h})

\* rateApp(hash, rating); <<>> stands for an entry without rating
rateApp(hash, rating) ==
  /\ hash \in DOMAIN registry
  /\ ratingsGiven(DOMAIN registry) < MaxRatings
  /\ LET old == IF registry[hash].rating = <<>> THEN <<0, 0>>
                ELSE registry[hash].rating
     IN registry' = [registry EXCEPT ![hash].rating =
                       IF rating > 0 THEN <<old[1] + 1, old[2]>>
                       ELSE <<old[1], old[2] + 1>>]
  /\ registryFile' = registry'
  /\ serverRet' = [op |-> "rate", status |-> 200, existing |-> TRUE,
                   hash |-> hash]
  /\ UNCHANGED <<images, sync>>

\* the process starts again: load() reads registry.json, keyed by the hash
\* field of each entry, and the syncCommunity call of the old process is gone
load ==
  /\ registry' = registryFile
  /\ sync' = NoSync
  /\ serverRet' = NoServerRet
  /\ UNCHANGED <<images, registryFile>>

\* the index files the community repository serves: the hashes of its apps
Indexes == { <<0>>, <<1, 0>> }

\* the app files the community repository serves
CommunityApps ==
  { [hash |-> h, prompt |-> "make a timer", code |-> c, type |-> "iframe",
     launches |-> 0, spec |-> "generated", rating |-> <<>>,
     source |-> "community"] :
      h \in 0..(HashSpace - 1), c \in {<< <<"x">> >>, << <<"eval(">> >>} }

\* the loop of syncCommunity up to its next await: the metas left once those
\* the registry already has are skipped
RECURSIVE skipKnown(_, _)
skipKnown(index, table) ==
  IF index = <<>> THEN <<>>
  ELSE IF Head(index) \in DOMAIN table THEN skipKnown(Tail(index), table)
  ELSE index

\* syncCommunity from the loop on, with the metas left and the number added:
\* the fetch of the next app file, or the end of the call
syncLoop(index, table, added) ==
  LET left == skipKnown(index, table)
  IN IF left = <<>>
       THEN /\ sync' = NoSync
            /\ registryFile' = IF added > 0 THEN table ELSE registryFile
       ELSE /\ sync' = [pc |-> "fetch", index |-> Tail(left),
                        meta |-> Head(left), added |-> added]
            /\ UNCHANGED registryFile

\* syncCommunity(): the call, up to the arrival of the index and the first
\* fetch of an app file
syncCommunity(index) ==
  /\ sync.pc = "idle"
  /\ syncLoop(index, registry, 0)
  /\ serverRet' = [op |-> "sync", status |-> 200, existing |-> FALSE,
                   hash |-> 0 - 1]
  /\ UNCHANGED <<registry, images>>

\* the app file of the fetched meta arrives and is stored
syncStore(entry) ==
  /\ sync.pc = "fetch"
  /\ registry' = MapSet(registry, entry.hash,
                   [entry EXCEPT !.launches =
                      IF sync.meta \in DOMAIN registry
                        THEN registry[sync.meta].launches ELSE 0])
  /\ syncLoop(sync.index, registry', sync.added + 1)
  /\ UNCHANGED <<images, serverRet>>

\* the fetch of the app file fails or answers with an error status
syncSkip ==
  /\ sync.pc = "fetch"
  /\ syncLoop(sync.index, registry, sync.added)
  /\ UNCHANGED <<registry, images, serverRet>>

ServerFrame ==
  UNCHANGED <<schedVars, capVars, storeVars, dockerVars, wasmVars, labVars,
              gatewayVars, profileVars, exitLog,
              appResults>>

\* the gateway under every routing and every set of available providers
GatewayInit ==
  /\ registry = EmptyMap
  /\ images = {}
  /\ serverRet = NoServerRet
  /\ registryFile = EmptyMap
  /\ sync = NoSync
  /\ routing \in Routings
  /\ available \in SUBSET SeqRange(providers)
  /\ generation = NoGeneration
  /\ gatewayRet = NoGatewayRet
  /\ profileFile = "absent"
  /\ exampleFile = "absent"
  /\ cachedProfile = "null"
  /\ snapshot = {}
  /\ profileRet = NoProfileRet
  /\ exitLog = <<>>
  /\ appResults = EmptyMap

\* the server started with or without a data/profile.yaml
ProfileInit ==
  /\ registry = EmptyMap
  /\ images = {}
  /\ serverRet = NoServerRet
  /\ registryFile = EmptyMap
  /\ sync = NoSync
  /\ routing = NoRouting
  /\ available = {"ollama"}
  /\ generation = NoGeneration
  /\ gatewayRet = NoGatewayRet
  /\ profileFile \in Files
  /\ exampleFile \in Files
  /\ cachedProfile = "null"
  /\ snapshot = {}
  /\ profileRet = NoProfileRet
  /\ exitLog = <<>>
  /\ appResults = EmptyMap

\* the handler of SIGINT and of SIGTERM:
\* () => { storageFlushAll(); process.exit(0); }
shutdown ==
  /\ storageFlushAll
  /\ exitLog' = <<"storageFlushAll", "process.exit">>
  /\ UNCHANGED <<clients, keyspace, schedVars, capVars, dockerVars, wasmVars,
                 labVars, registry, images, serverRet, registryFile, sync,
                 gatewayVars, profileVars, appResults>>

\* the process has not exited
alive == exitLog = <<>>

\* the server with apps that store data and containers that are launched and
\* stopped, until a signal ends it
ShutdownNext ==
  \/ \E a \in clients, k \in keyspace, v \in ValueLens :
       alive /\ storageSet(a, k, v) /\ StoreFrame
  \/ \E a \in clients : alive /\ saveTimerFires(a) /\ StoreFrame
  \/ \E a \in dockerClients, w \in BOOLEAN :
       alive /\ launchContainer(a, w) /\ DockerFrame
  \/ \E c \in launching, ok \in BOOLEAN :
       alive /\ createAnswers(c, ok) /\ DockerFrame
  \/ \E c \in launching, ok \in BOOLEAN :
       alive /\ startAnswers(c, ok) /\ DockerFrame
  \/ \E c \in launching, ok \in BOOLEAN :
       alive /\ deleteAnswers(c, ok) /\ DockerFrame
  \/ \E a \in dockerClients : alive /\ stopContainer(a) /\ DockerFrame
  \/ \E c \in stopping, ok \in BOOLEAN :
       alive /\ stopAnswers(c, ok) /\ DockerFrame
  \/ \E c \in stopping, ok \in BOOLEAN :
       alive /\ removeAnswers(c, ok) /\ DockerFrame
  \/ alive /\ shutdown

\* the prompts of the generation requests, as their lower-case words
GrantPrompts == {<<"a", "clock">>, <<"save", "a", "note">>, <<"a", "game">>}

\* what the LLM answered: code whose capabilities comment is absent, holds
\* no JSON array ("unparsable"), or holds the array `caps`
GeneratedCodes ==
  {[comment |-> "absent", caps |-> <<>>],
   [comment |-> "unparsable", caps |-> <<>>],
   [comment |-> "array", caps |-> <<"ui:window">>],
   [comment |-> "array", caps |-> <<"ui:window", "storage:local">>],
   [comment |-> "array", caps |-> <<"bogus">>]}

\* KEYWORD_MAP, in the order of its keys
KEYWORD_MAP ==
  << [cap |-> "storage:local",
      keywords |-> {"save", "store", "persist", "remember", "todo", "list",
                    "note", "bookmark", "favorite", "history", "data"}],
     [cap |-> "timer:basic",
      keywords |-> {"timer", "countdown", "stopwatch", "clock", "pomodoro",
                    "interval", "animation", "tick", "alarm", "reminder"}],
     [cap |-> "clipboard:rw",
      keywords |-> {"clipboard", "copy", "paste", "share"}],
     [cap |-> "network:http",
      keywords |-> {"fetch", "api", "download", "upload", "weather", "news",
                    "feed", "rss", "search online"}],
     [cap |-> "process:background",
      keywords |-> {"bot", "daemon", "service", "worker", "agent",
                    "background", "long-running", "server"}],
     [cap |-> "process:network",
      keywords |-> {"whatsapp", "telegram", "discord", "webhook",
                    "connect to", "api call"}],
     [cap |-> "process:volume",
      keywords |-> {"persist", "database", "sqlite", "save files",
                    "data storage"}],
     [cap |-> "api:anthropic",
      keywords |-> {"claude", "anthropic", "nanoclaw", "ai agent",
                    "llm agent"}] >>

\* [...new Set(list)]: the first occurrence of every element, in order
RECURSIVE unique(_)
unique(list) ==
  IF list = <<>> THEN <<>>
  ELSE LET init == unique(SubSeq(list, 1, Len(list) - 1))
           last == list[Len(list)]
       IN IF last \in SeqRange(init) THEN init ELSE Append(init, last)

\* the capabilities of KEYWORD_MAP[i..] one of whose keywords the prompt has
RECURSIVE keywordCaps(_, _)
keywordCaps(prompt, i) ==
  IF i > Len(KEYWORD_MAP) THEN <<>>
  ELSE (IF KEYWORD_MAP[i].keywords \cap SeqRange(prompt) # {}
          THEN <<KEYWORD_MAP[i].cap>> ELSE <<>>)
       \o keywordCaps(prompt, i + 1)

\* proposeCapabilities(prompt)
proposeCapabilities(prompt) == unique(<<"ui:window">> \o keywordCaps(prompt, 1))

\* extractCapabilities(code)
extractCapabilities(code) ==
  IF code.comment = "array" THEN code.caps ELSE <<"ui:window">>

\* POST /api/generate, the LLM having answered `code`: the capabilities of
\* the result are the declared ones merged with the proposed ones
apiGenerate(prompt, code) ==
  output' = [prompt |-> prompt,
             declared |-> extractCapabilities(code),
             capabilities |-> unique(extractCapabilities(code)
                                       \o proposeCapabilities(prompt))]

\* the client grants the app the capabilities of its generation result:
\* Capabilities.grant(appId, caps)
grantGenerated(appId) ==
  /\ output # <<>>
  /\ grantBegin(appId, output.capabilities)
  /\ appResults' = MapSet(appResults, appId, output)

GrantNext ==
  \/ initTokenKey /\ CapFrame
  \/ \E p \in GrantPrompts, c \in GeneratedCodes :
       apiGenerate(p, c) /\ LabFrame
  \/ \E a \in AppIds :
       grantGenerated(a)
       /\ UNCHANGED <<labVars, schedVars, storeVars, dockerVars, wasmVars,
                      registry, images, serverRet, registryFile, sync,
                      gatewayVars, profileVars, exitLog>>
  \/ grantSign /\ CapFrame
  \/ grantEnd /\ CapFrame
  \/ \E a \in AppIds : revokeAll(a) /\ CapFrame

ServerNext ==
  \/ \E p \in Prompts, c \in Snippets :
       apiRegistryPublish([prompt |-> p, code |-> c]) /\ ServerFrame
  \/ \E p \in Prompts, c \in Snippets : generateApps(p, c) /\ ServerFrame
  \/ \E h \in DOMAIN registry : recordLaunch(h) /\ ServerFrame
  \/ \E h \in DOMAIN registry : deleteApp(h) /\ ServerFrame
  \/ \E r \in Recipes : apiProcessBuild(r) /\ ServerFrame

\* the registry module: its API, the restart of the process and the sync
RegistryNext ==
  \/ \E p \in Prompts, c \in Snippets :
       apiRegistryPublish([prompt |-> p, code |-> c]) /\ ServerFrame
  \/ \E h \in DOMAIN registry : recordLaunch(h) /\ ServerFrame
  \/ \E h \in DOMAIN registry : updateSpec(h, "edited") /\ ServerFrame
  \/ \E h \in DOMAIN registry, r \in {1, 0 - 1} :
       rateApp(h, r) /\ ServerFrame
  \/ \E h \in DOMAIN registry : deleteApp(h) /\ ServerFrame
  \/ load /\ ServerFrame
  \/ \E i \in Indexes : syncCommunity(i) /\ ServerFrame
  \/ \E e \in CommunityApps : syncStore(e) /\ ServerFrame
  \/ syncSkip /\ ServerFrame

-----------------------------------------------------------------------------
(* Specifications *)

\* the initial state of a specification: the groups it leaves alone start as
\* their modules start
\* ---- capability tokens as strings
\* A token is the string header.payload.signature.  Here it is a sequence of
\* characters: 0..63 are the base64url digits in alphabet order (62 is '-',
\* 63 is '_'), and four more characters are told apart.  The HMAC-SHA256 tag
\* of 32 bytes is scaled to its last base64 group: 32 = 3 * 10 + 2, so the
\* signature segment ends with two bytes written in three digits, of which the
\* last carries two bits that belong to no byte.
PlusChar == 64
SlashChar == 65
DotChar == 66
OtherChar == 67
TokenChars == 0..OtherChar
SigBytes == 2
HmacKeys == {0, 1}
HEADER_B64 == <<4>>
TokenPayloads == 10..15

\* crypto.subtle.sign('HMAC', key, signingInput): a tag that differs for any
\* two signing inputs header.payload of one-character segments, and is never 0
hmacTag(key, signingInput) ==
  [len |-> SigBytes,
   value |-> 1 + key * 4624 + signingInput[1] * 68
               + signingInput[Len(signingInput)]]

\* buf.toString('base64') with '+' -> '-', '/' -> '_' and the padding removed
base64url(buf) ==
  <<buf.value \div 1024, (buf.value \div 16) % 64, (buf.value % 16) * 4>>

\* the digit a character stands for once '-' -> '+' and '_' -> '/' are applied
\* and the base64 decoder, which accepts both alphabets, reads it
digitOf(c) ==
  IF c = PlusChar THEN 62 ELSE IF c = SlashChar THEN 63 ELSE c

RECURSIVE digitsValue(_)
digitsValue(ds) ==
  IF ds = <<>> THEN 0
  ELSE digitsValue(SubSeq(ds, 1, Len(ds) - 1)) * 64 + digitOf(ds[Len(ds)])

\* Buffer.from(padded, 'base64'): characters outside the alphabets are
\* skipped, every 8 bits make a byte and the bits left over are dropped
base64urlDecode(str) ==
  LET ds == SelectSeq(str, LAMBDA c : c \notin {DotChar, OtherChar})
      n  == (Len(ds) * 6) \div 8
  IN  [len |-> n,
       value |-> digitsValue(ds) \div (2 ^ (Len(ds) * 6 - n * 8))]

\* tokenStr.split('.')
RECURSIVE split(_)
split(str) ==
  IF \A i \in 1..Len(str) : str[i] # DotChar THEN <<str>>
  ELSE LET dot == CHOOSE i \in 1..Len(str) :
                    /\ str[i] = DotChar
                    /\ \A j \in 1..(i - 1) : str[j] # DotChar
       IN  <<SubSeq(str, 1, dot - 1)>>
             \o split(SubSeq(str, dot + 1, Len(str)))

signTokenStr(key, payloadB64) ==
  LET signingInput == HEADER_B64 \o <<DotChar>> \o payloadB64
  IN  signingInput \o <<DotChar>> \o base64url(hmacTag(key, signingInput))

\* verifyToken of a token string whose payload, if it is reached, is neither
\* expired nor revoked
verifyTokenStr(key, tokenStr) ==
  LET parts == split(tokenStr)
  IN  IF Len(parts) # 3 THEN [valid |-> FALSE, error |-> "malformed"]
      ELSE LET signingInput == parts[1] \o <<DotChar>> \o parts[2]
               expectedSig  == hmacTag(key, signingInput)
               actualSig    == base64urlDecode(parts[3])
           IN  IF actualSig.len # expectedSig.len
               THEN [valid |-> FALSE, error |-> "invalid_signature"]
               ELSE IF actualSig # expectedSig
               THEN [valid |-> FALSE, error |-> "invalid_signature"]
               ELSE IF ~ (Len(parts[2]) = 1 /\ parts[2][1] \in TokenPayloads)
               THEN [valid |-> FALSE, error |-> "invalid_payload"]
               ELSE [valid |-> TRUE, error |-> "none"]

\* the strings one character away from str
tampered(str) ==
  UNION { { [str EXCEPT ![i] = c] : c \in TokenChars \ {str[i]} } :
            i \in 1..Len(str) }

\* a fabricated token: a payload of the right form under an all-zero signature
forged(payloadB64) ==
  HEADER_B64 \o <<DotChar>> \o payloadB64 \o <<DotChar>>
    \o base64url([len |-> SigBytes, value |-> 0])

TamperInit ==
  /\ input \in { <<[key |-> k, token |-> signTokenStr(k, <<p>>)]>> :
                   k \in HmacKeys, p \in TokenPayloads }
  /\ output = <<>>

\* a token string is presented to verifyToken: the issued one, one that is a
\* character away from it, or a fabricated one
presents ==
  /\ output = <<>>
  /\ \E t \in {input[1].token} \cup tampered(input[1].token)
                \cup { forged(<<p>>) : p \in TokenPayloads } :
       output' = <<[presented |-> t,
                    result |-> verifyTokenStr(input[1].key, t)]>>
  /\ LabFrame

TamperNext == presents

\* ---- the prompt router
\* A prompt is read as its lower-case words, with "," "(" and ")" as words of
\* their own; no prompt of the model holds a keyword inside a longer word.
Absent == "null"
ModelWords ==
  {"opus", "sonnet", "haiku", "claude", "openai", "ollama", "qwen", "local",
   "gpt-4o", "gpt-4", "o1"}

\* the first place where the words of pattern stand in prompt, 0 when nowhere
indexOf(prompt, pattern) ==
  LET at == {i \in 1..(Len(prompt) - Len(pattern) + 1) :
               SubSeq(prompt, i, i + Len(pattern) - 1) = pattern}
  IN  IF at = {} THEN 0 ELSE CHOOSE i \in at : \A j \in at : i <= j

\* prompt.replace(m[0], ''): the first occurrence of the matched text goes
without(prompt, matched) ==
  LET i == indexOf(prompt, matched)
  IN  SubSeq(prompt, 1, i - 1) \o SubSeq(prompt, i + Len(matched), Len(prompt))

\* what each of MODEL_HINT_PATTERNS matches in prompt: <<>> when nothing
MODEL_HINT_PATTERNS(prompt) ==
  LET n == Len(prompt)
      first(S) == IF S = {} THEN <<>>
                  ELSE LET i == CHOOSE i \in S : \A j \in S : i <= j
                       IN  SubSeq(prompt, i, i + 1)
  IN  << first({i \in 1..(n - 1) :
                  /\ prompt[i] \in {"use", "using", "with", "via", "by"}
                  /\ prompt[i + 1] \in ModelWords}),
         IF n >= 2 /\ prompt[n - 1] = "," /\ prompt[n] \in ModelWords
           THEN SubSeq(prompt, n - 1, n) ELSE <<>>,
         IF /\ n >= 3 /\ prompt[n - 2] = "(" /\ prompt[n] = ")"
            /\ prompt[n - 1] \in ModelWords
           THEN SubSeq(prompt, n - 2, n) ELSE <<>>,
         first({i \in 1..(n - 1) :
                  /\ prompt[i] \in {"opus", "sonnet", "haiku"}
                  /\ prompt[i + 1] = "model"}) >>

\* extractModelHint(prompt): the alias and the clean prompt, or no hint
extractModelHint(prompt) ==
  LET ms == MODEL_HINT_PATTERNS(prompt)
      hitAt == {k \in 1..Len(ms) : ms[k] # <<>>}
  IN  IF hitAt = {} THEN [alias |-> Absent, cleanPrompt |-> prompt]
      ELSE LET k == CHOOSE k \in hitAt : \A j \in hitAt : k <= j
               m == ms[k]
           IN  [alias |-> CHOOSE w \in SeqRange(m) : w \in ModelWords,
                cleanPrompt |-> without(prompt, m)]

PROCESS_KEYWORDS ==
  {"nanoclaw", "ssh", "chromium", "browser", "daemon", "long-running",
   "docker", "container", "playwright", "puppeteer", "scraper", "crawler",
   "scraping", "express", "fastify"}

\* TEMPLATE_KEYWORDS, in the order of its entries
TEMPLATE_KEYWORDS ==
  << [name |-> "ssh", keywords |-> {"ssh"}],
     [name |-> "browser", keywords |-> {"chromium", "browser"}],
     [name |-> "nanoclaw", keywords |-> {"nanoclaw"}] >>

regexRoute(prompt) ==
  LET hint == extractModelHint(prompt)
      cleanPrompt == hint.cleanPrompt
      isProcess == test(PROCESS_KEYWORDS, cleanPrompt)
      matching == {k \in 1..Len(TEMPLATE_KEYWORDS) :
                     test(TEMPLATE_KEYWORDS[k].keywords, cleanPrompt)}
      template == IF matching = {} THEN Absent
                  ELSE TEMPLATE_KEYWORDS[CHOOSE k \in matching :
                                           \A j \in matching : k <= j].name
  IN  [type |-> IF isProcess THEN "process" ELSE "iframe",
       template |-> template,
       model |-> hint.alias,
       complexity |-> estimateComplexity(cleanPrompt),
       title |-> Absent,
       source |-> "regex"]

\* what the configuration and the resource monitor give the router: the URL
\* of Ollama, config.routing.routerModel, the answer of
\* getBestOllamaModel('route') and config.providers.ollama.model ("" and
\* Absent when not there)
RouterConfigs ==
  { [ollamaUrl |-> "", routerModel |-> "", best |-> Absent, model |-> "qwen"],
    [ollamaUrl |-> "url", routerModel |-> "", best |-> Absent, model |-> ""],
    [ollamaUrl |-> "url", routerModel |-> "tiny", best |-> Absent,
     model |-> ""],
    [ollamaUrl |-> "url", routerModel |-> "", best |-> "small", model |-> ""],
    [ollamaUrl |-> "url", routerModel |-> "", best |-> Absent,
     model |-> "qwen"] }

\* what the request to Ollama comes to: it fails or is aborted, the status is
\* not OK, the body is not JSON or is null, the response text holds no {...},
\* holds one that does not parse, or holds an object
Parsed ==
  [type : {"iframe", "process", "widget", Absent},
   complexity : {"simple", "complex", "huge", Absent},
   template : {Absent, "ssh", "vnc"},
   model : {Absent, "opus", "gpt-9"},
   title : {Absent, "Calculator"}]
NoParsed ==
  [type |-> Absent, complexity |-> Absent, template |-> Absent,
   model |-> Absent, title |-> Absent]
LlmAnswers ==
  { [fetch |-> f, parsed |-> NoParsed] :
      f \in {"unreachable", "timeout", "notOk", "notJson", "nullBody",
             "noMatch", "syntaxError"} }
    \cup { [fetch |-> "object", parsed |-> p] : p \in Parsed }

RouterPrompts ==
  { <<"make", "a", "calculator">>,
    <<"ssh", "client", "using", "opus">>,
    <<"build", "a", "real-time", "chat", "with", "websocket", ",", "sonnet">>,
    <<"a", "web", "browser", "(", "local", ")">>,
    <<"nanoclaw", "with", "a", "database", "haiku", "model">> }

\* llmRoute returns null
NoClassification == [source |-> "null"]

\* the fields of the answer that llmRoute keeps as they are
llmRouteTrusting(cfg, answer) ==
  LET routerModel == IF cfg.routerModel # "" THEN cfg.routerModel
                     ELSE IF cfg.best # Absent THEN cfg.best
                     ELSE cfg.model
  IN  IF cfg.ollamaUrl = "" \/ routerModel = "" THEN NoClassification
      ELSE IF answer.fetch # "object" THEN NoClassification
      ELSE [type |-> answer.parsed.type,
            template |-> answer.parsed.template,
            model |-> answer.parsed.model,
            complexity |-> answer.parsed.complexity,
            title |-> answer.parsed.title,
            source |-> "llm",
            routerModel |-> routerModel]

\* llmRoute(prompt): the classification, or NoClassification for null
llmRoute(cfg, answer) ==
  LET routerModel == IF cfg.routerModel # "" THEN cfg.routerModel
                     ELSE IF cfg.best # Absent THEN cfg.best
                     ELSE cfg.model
      parsed == answer.parsed
  IN  IF cfg.ollamaUrl = "" THEN NoClassification
      ELSE IF routerModel = "" THEN NoClassification
      ELSE IF answer.fetch \in {"unreachable", "timeout"} THEN NoClassification
      ELSE IF answer.fetch = "notOk" THEN NoClassification
      ELSE IF answer.fetch \in {"notJson", "nullBody"} THEN NoClassification
      ELSE IF answer.fetch = "noMatch" THEN NoClassification
      ELSE IF answer.fetch = "syntaxError" THEN NoClassification
      ELSE IF parsed.type \notin {"iframe", "process"} THEN NoClassification
      ELSE IF parsed.complexity \notin {"simple", "medium", "complex"}
        THEN NoClassification
      ELSE [type |-> parsed.type,
            template |-> IF parsed.template \in {"ssh", "browser", "nanoclaw"}
                           THEN parsed.template ELSE Absent,
            model |-> IF parsed.model \in {"opus", "sonnet", "haiku", "local",
                                           "claude", "ollama"}
                        THEN parsed.model ELSE Absent,
            complexity |-> parsed.complexity,
            title |-> parsed.title,
            source |-> "llm",
            routerModel |-> routerModel]

\* routePrompt(prompt)
routePrompt(prompt, cfg, answer) ==
  LET llmResult == llmRoute(cfg, answer)
  IN  IF llmResult # NoClassification THEN llmResult ELSE regexRoute(prompt)

RouteInit ==
  /\ input \in { <<[prompt |-> p, config |-> c, answer |-> a]>> :
                   p \in RouterPrompts, c \in RouterConfigs, a \in LlmAnswers }
  /\ output = <<>>

routes ==
  /\ output = <<>>
  /\ output' = <<routePrompt(input[1].prompt, input[1].config,
                             input[1].answer)>>
  /\ LabFrame

RouteNext == routes

SchedStart ==
  SchedInit /\ CapInit /\ StoreInit /\ DockerInit /\ WasmInit /\ LabInit
  /\ ServerInit
BudgetStart ==
  BudgetInit /\ CapInit /\ StoreInit /\ DockerInit /\ WasmInit /\ LabInit
  /\ ServerInit
ApiStart ==
  ApiInit /\ CapInit /\ StoreInit /\ DockerInit /\ WasmInit /\ LabInit
  /\ ServerInit
PauseStart ==
  PauseInit /\ CapInit /\ StoreInit /\ DockerInit /\ WasmInit /\ LabInit
  /\ ServerInit
SoloStart ==
  SoloInit /\ CapInit /\ StoreInit /\ DockerInit /\ WasmInit /\ LabInit
  /\ ServerInit
CapStart ==
  CapInit /\ SchedInit /\ StoreInit /\ DockerInit /\ WasmInit /\ LabInit
  /\ ServerInit
StoreStart ==
  StoreInit /\ SchedInit /\ CapInit /\ DockerInit /\ WasmInit /\ LabInit
  /\ ServerInit
IsolationStart ==
  IsolationInit /\ SchedInit /\ CapInit /\ DockerInit /\ WasmInit /\ LabInit
  /\ ServerInit
PathStart ==
  PathInit /\ SchedInit /\ CapInit /\ DockerInit /\ WasmInit /\ LabInit
  /\ ServerInit
DockerStart ==
  DockerInit /\ SchedInit /\ CapInit /\ StoreInit /\ WasmInit /\ LabInit
  /\ ServerInit
LaunchStart ==
  LaunchInit /\ SchedInit /\ CapInit /\ StoreInit /\ WasmInit /\ LabInit
  /\ ServerInit
RelaunchStart ==
  RelaunchInit /\ SchedInit /\ CapInit /\ StoreInit /\ WasmInit /\ LabInit
  /\ ServerInit
LifecycleStart ==
  LifecycleInit /\ SchedInit /\ CapInit /\ StoreInit /\ WasmInit /\ LabInit
  /\ ServerInit
WasmStart ==
  WasmInit /\ SchedInit /\ CapInit /\ StoreInit /\ DockerInit /\ LabInit
  /\ ServerInit
HostStart ==
  HostInit /\ SchedInit /\ CapInit /\ StoreInit /\ DockerInit /\ LabInit
  /\ ServerInit
ValidateStart ==
  ValidateInit /\ SchedInit /\ CapInit /\ StoreInit /\ DockerInit /\ WasmInit
  /\ ServerInit
RunStart ==
  RunInit /\ SchedInit /\ CapInit /\ StoreInit /\ DockerInit /\ WasmInit
  /\ ServerInit
DispatchStart ==
  DispatchInit /\ SchedInit /\ CapInit /\ StoreInit /\ DockerInit /\ WasmInit
  /\ ServerInit

AnalyzeStart ==
  AnalyzeInit /\ SchedInit /\ CapInit /\ StoreInit /\ DockerInit /\ WasmInit
  /\ ServerInit
ProfileStart ==
  ProfileInit /\ SchedInit /\ CapInit /\ StoreInit /\ DockerInit /\ WasmInit
  /\ LabInit
ShutdownStart ==
  ServerInit /\ SchedInit /\ CapInit /\ StoreInit /\ LifecycleInit
  /\ WasmInit /\ LabInit
GrantStart ==
  CapInit /\ SchedInit /\ StoreInit /\ DockerInit /\ WasmInit /\ LabInit
  /\ ServerInit
RouteStart ==
  RouteInit /\ SchedInit /\ CapInit /\ StoreInit /\ DockerInit /\ WasmInit
  /\ ServerInit
PortsStart ==
  PortsInit /\ SchedInit /\ CapInit /\ StoreInit /\ WasmInit /\ LabInit
  /\ ServerInit
TamperStart ==
  TamperInit /\ SchedInit /\ CapInit /\ StoreInit /\ DockerInit /\ WasmInit
  /\ ServerInit
GatewayStart ==
  GatewayInit /\ SchedInit /\ CapInit /\ StoreInit /\ DockerInit /\ WasmInit
  /\ LabInit
ServerStart ==
  ServerInit /\ SchedInit /\ CapInit /\ StoreInit /\ DockerInit /\ WasmInit
  /\ LabInit

SchedSpec == SchedStart /\ [][SchedNext]_vars

SoloSpec == SoloStart /\ [][SchedNext]_vars

BudgetSpec == BudgetStart /\ [][BudgetNext]_vars

ApiSpec == ApiStart /\ [][ApiNext]_vars

PauseSpec == PauseStart /\ [][PauseNext]_vars

CapSpec == CapStart /\ [][CapNext]_vars

StoreSpec == StoreStart /\ [][StoreNext]_vars
IsolationSpec == IsolationStart /\ [][StoreNext]_vars
PathSpec == PathStart /\ [][StoreNext]_vars

DockerSpec == DockerStart /\ [][DockerNext]_vars
LaunchSpec == LaunchStart /\ [][LaunchNext]_vars
RelaunchSpec == RelaunchStart /\ [][RelaunchNext]_vars
LifecycleSpec == LifecycleStart /\ [][LifecycleNext]_vars

WasmSpec == WasmStart /\ [][WasmNext]_vars

HostSpec == HostStart /\ [][HostNext]_vars

ValidateSpec == ValidateStart /\ [][ValidateNext]_vars

RunSpec == RunStart /\ [][RunNext]_vars

DispatchSpec == DispatchStart /\ [][DispatchNext]_vars

AnalyzeSpec == AnalyzeStart /\ [][AnalyzeNext]_vars

ServerSpec == ServerStart /\ [][ServerNext]_vars
ProfileSpec == ProfileStart /\ [][ProfileNext]_vars

ShutdownSpec == ShutdownStart /\ [][ShutdownNext]_vars

GrantSpec == GrantStart /\ [][GrantNext]_vars

RouteSpec == RouteStart /\ [][RouteNext]_vars

PortsSpec == PortsStart /\ [][PortsNext]_vars

TamperSpec == TamperStart /\ [][TamperNext]_vars

GatewaySpec == GatewayStart /\ [][GatewayNext]_vars
RegistrySpec == ServerStart /\ [][RegistryNext]_vars

-----------------------------------------------------------------------------
(* Scheduler properties *)

Unsettled == SumOver(handlers, TaskIds)

\* C1: at most one task handler is unsettled at any instant; a handler is
\* started (by a tick or by runNow, of any task) only when none is unsettled;
\* and runNow of a registered task while a handler is unsettled returns the
\* 'Another task is running' failure and starts nothing.
C1_OneHandlerAtATime ==
  [][ /\ Unsettled' <= 1
      /\ \A id \in TaskIds : handlers'[id] > handlers[id] => Unsettled = 0
      /\ \A id \in TaskIds :
            (Unsettled > 0 /\ id \in tasks /\ runNow(id))
              => (schedRet' = "busy" /\ handlers' = handlers) ]_vars

\* C1 witness: a handler is unsettled and a runNow has just been refused
C1_Witness == Unsettled = 1 /\ running /\ schedRet = "busy"

\* C7: when the handler has thrown on three executions in a row (no success,
\* enableTask or resetCircuitBreaker in between), the task then has
\* consecutiveErrors = 3, is disabled with reason 'circuit-breaker', its timer
\* is stopped and nextRun is null; and an execution whose handler returns
\* without throwing leaves consecutiveErrors = 0.
C7_BreakerTripsAtThree ==
  [][ \A id \in TaskIds :
        /\ (settle(id, "throw") /\ throwStreak'[id] = 3)
             => /\ taskState'[id].consecutiveErrors = 3
                /\ ~taskState'[id].enabled
                /\ taskState'[id].disabledReason = "circuit-breaker"
                /\ ~timer'[id]
                /\ ~taskState'[id].nextRun
        /\ (settle(id, "object") \/ settle(id, "nullish"))
             => taskState'[id].consecutiveErrors = 0 ]_vars

\* the breaker of the task has tripped and has not been reset since:
\* consecutiveErrors reached the threshold and the task was auto-disabled
Tripped(id) ==
  /\ taskState[id].consecutiveErrors >= CIRCUIT_BREAKER_THRESHOLD
  /\ taskState[id].disabledReason = "circuit-breaker"

\* C8 as claimed: once the breaker has tripped, no handler of the task is
\* started, by a tick or by runNow, and consecutiveErrors never exceeds 3.
C8_NoStartOnceTripped ==
  [][ \A id \in TaskIds :
        /\ Tripped(id) => handlers'[id] <= handlers[id]
        /\ taskState'[id].consecutiveErrors <= CIRCUIT_BREAKER_THRESHOLD ]_vars

\* C8 as amended: an execution that ends with an Error caught at three or
\* more consecutive errors trips the breaker; a tripped task is disabled and
\* has no armed timer, and no timer tick starts its handler; only runNow
\* starts the handler of a tripped task.
C8_NoTickOnceTripped ==
  [][ \A id \in TaskIds :
        /\ (\E o \in {"nullish", "throw"} : settle(id, o))
              /\ taskState'[id].consecutiveErrors >= CIRCUIT_BREAKER_THRESHOLD
             => Tripped(id)'
        /\ Tripped(id)' => /\ ~taskState'[id].enabled
                           /\ ~timer'[id]
        /\ (Tripped(id) /\ handlers'[id] > handlers[id])
             => startedBy'[id] = "runNow" ]_vars

\* C8 witness: the handler of a tripped task is running, started by runNow
C8_Witness ==
  \E id \in TaskIds :
    Tripped(id) /\ handlers[id] = 1 /\ startedBy[id] = "runNow"

-----------------------------------------------------------------------------
(* Capability token properties *)

Valid(t) == verifyToken(t).valid
ErrorOf(t) == verifyToken(t).error

\* the signature segment is the HMAC of this token's own header.payload
\* under the key of this process
SignedByProcess(t) ==
  hmacKey = ProcessKey /\ t.sig.key = ProcessKey /\ t.sig.over = payloadOf(t)

\* C2: after revokeAll(appId) every token any earlier grant returned for
\* appId verifies invalid, and checkCapability(appId, c) is false for every c.
C2_RevokeAllRevokesEveryGrant ==
  [][ \A a \in AppIds :
        revokeAll(a) =>
          /\ \A t \in issued : t.appId = a => ~Valid(t)'
          /\ \A c \in CAPABILITY_TYPES : ~checkCapability(a, c)' ]_vars

\* the parts of C3 that do not name the error of a revoked token: a token
\* verifies valid exactly when it is signed by the process, now <= exp and its
\* nonce is not revoked; the tokens a grant returns verify valid when it
\* returns; revokeToken(t) makes t invalid and changes the verdict of no token
\* with another nonce.
C3_Common ==
  /\ \A t \in Presentable' :
        Valid(t)' <=> /\ t.parts = 3
                      /\ SignedByProcess(t)'
                      /\ now' <= t.exp
                      /\ t.nonce \notin revocationSet'
  /\ grantEnd => \A t \in SeqRange(grantCall.tokenList) : Valid(t)'
  /\ \A t \in issued :
        revokeToken(t) =>
          /\ ~Valid(t)'
          /\ \A u \in issued : u.nonce # t.nonce => verifyToken(u)' = verifyToken(u)

\* C3 as claimed: besides, a token that revokeToken has revoked verifies
\* with error 'revoked'.
C3_RevokedReportsRevoked ==
  [][ /\ C3_Common
      /\ \A t \in issued : revokeToken(t) => ErrorOf(t)' = "revoked" ]_vars

\* C3 as amended: a revoked token verifies with error 'revoked' while
\* now <= exp, and with error 'expired' once now > exp.
C3_RevokedReportsRevokedUntilExpiry ==
  [][ /\ C3_Common
      /\ \A t \in issued :
            revokeToken(t) =>
              ErrorOf(t)' = IF now > t.exp THEN "expired" ELSE "revoked" ]_vars

\* C3 witness: of two tokens of one grant, one is revoked and reports
\* 'revoked', the other is still valid at now = exp
C3_Witness ==
  \E t, u \in issued :
    /\ t.appId = u.appId /\ t.nonce # u.nonce
    /\ ErrorOf(t) = "revoked"
    /\ Valid(u) /\ now = u.exp

-----------------------------------------------------------------------------
(* Storage properties *)

\* what the app's store holds: the cached data, or what a load would read
storeView(appId) == loadStore(appId).data
dirtyApps == {a \in DOMAIN cache : cache[a].dirty}

\* C4: a storageSet refused for quota returns ok:false with the quota error
\* and leaves the app's store as it was: every key, k included, keeps its
\* previous value, and nothing becomes dirty or scheduled for writing.
C4_RefusedSetLeavesStore ==
  [][ \A a \in clients, k \in keyspace, v \in ValueLens :
        (storageSet(a, k, v) /\ ~storeRet'.ok) =>
          /\ storeRet'.error = "quota"
          /\ storeView(a)' = storeView(a)
          /\ dirtyApps' = dirtyApps
          /\ writeTimers' = writeTimers ]_vars

-----------------------------------------------------------------------------
(* Process manager properties *)

\* C5: the number of tracked containers never exceeds maxContainers, in every
\* interleaving of launchContainer and stopContainer calls, and a launch
\* attempted at the limit fails.
C5_NeverMoreThanMaxContainers ==
  [][ /\ Cardinality(DOMAIN processes') <= maxContainers
      /\ \A a \in DockerApps, w \in BOOLEAN :
            (launchContainer(a, w)
               /\ Cardinality(DOMAIN processes) >= maxContainers)
              => (~dockerRet'.ok /\ launching' = launching) ]_vars

\* C6: a port handed out is the lowest free port of the range; when a
\* stopContainer call ends, whatever the engine answered to its stop and
\* remove requests, the appId is not tracked and the port of the stopped
\* process is free; a launch that needs a port when the whole range is
\* allocated fails and changes neither the ports, the processes, the calls
\* in progress nor the containers.
C6_PortsFirstFreeAndFreedOnStop ==
  [][ /\ \A p \in allocatedPorts' \ allocatedPorts :
            p \in freePorts /\ \A q \in freePorts : p <= q
      /\ \A c \in stopping, ok \in BOOLEAN :
            removeAnswers(c, ok) =>
              /\ c.appId \notin DOMAIN processes'
              /\ c.proc.port \notin allocatedPorts'
      /\ \A a \in DockerApps :
            (launchContainer(a, TRUE) /\ freePorts = {}) =>
              /\ ~dockerRet'.ok
              /\ UNCHANGED <<allocatedPorts, processes, launching, stopping,
                             containers>> ]_vars

\* C6 witness: a stop of a process with a web port has just ended although
\* the engine answered with an error; the port is free, the appId untracked
C6_Witness ==
  /\ dockerRet.op = "stop" /\ dockerRet.ok /\ dockerRet.swallowed
  /\ dockerRet.port \in PortRange
  /\ dockerRet.port \notin allocatedPorts
  /\ dockerRet.appId \notin DOMAIN processes

-----------------------------------------------------------------------------
(* WASM sandbox properties *)

\* the launch promise of n is rejected in this step because of the module or
\* its worker
failsNow(n) ==
  /\ launches[n].promise = "pending"
  /\ launches'[n].promise = "rejected"
  /\ launches'[n].error \notin {"CPU timeout", "was killed"}

\* C9: when a launch rejects because of its module or its worker (bad magic,
\* unbounded or oversized memory, an import without its capability, a missing
\* entry function, a trap, a worker error event), its appId is out of the app
\* table and its CPU timer is cancelled; a launch with an appId that is not
\* in the table is accepted.
C9_FailedLaunchFreesAppId ==
  [][ /\ \A n \in DOMAIN launches :
            failsNow(n) =>
              /\ launches[n].appId \notin DOMAIN apps'
              /\ ~launches'[n].timeoutHandle
      /\ \A a \in tenants, p \in Programs :
            (launch(a, p) /\ a \notin DOMAIN apps) =>
              /\ wasmRet'.ok
              /\ a \in DOMAIN apps' /\ apps'[a] = Len(launches')
              /\ launches'[apps'[a]].status = "running" ]_vars

\* C9 witness: a launch of an appId rejected for a missing entry function,
\* and a later launch of the same appId is running
C9_Witness ==
  \E n, m \in DOMAIN launches :
    /\ n < m /\ launches[n].appId = launches[m].appId
    /\ launches[n].promise = "rejected"
    /\ launches[n].error = "no exported function"
    /\ launches[m].appId \in DOMAIN apps /\ apps[launches[m].appId] = m
    /\ launches[m].status = "running"

\* C10: while launch n is running under its appId, its entry stays in the
\* table unless the step is the delivery of n's own message, n's own CPU
\* timeout, or a kill; a second launch with the appId is rejected as already
\* running and changes nothing.
C10_RunningEntryStays ==
  [][ /\ \A a \in DOMAIN apps :
            launches[apps[a]].status = "running" =>
              \/ a \in DOMAIN apps' /\ apps'[a] = apps[a]
                   /\ launches'[apps[a]] = launches[apps[a]]
              \/ delivered(apps[a])
              \/ workerPosts(apps[a]) \/ workerErrors(apps[a])
              \/ cpuTimeout(apps[a])
              \/ kill(a) \/ killAll
      /\ \A a \in DOMAIN apps, p \in Programs :
            launch(a, p) =>
              /\ ~wasmRet'.ok /\ wasmRet'.error = "already running"
              /\ UNCHANGED <<apps, launches>> ]_vars

\* C11: the CPU timer of a launch is armed only while the launch is running
\* and its promise is pending, so a launch whose timer is gone is settled and
\* the timer never acts on an app that finished, failed or was killed; when
\* the timer fires, the worker is terminated, the promise rejects with 'CPU
\* timeout', the appId is out of the app table and nothing else changes.
C11_TimerSettlesRunningLaunch ==
  [][ \A n \in DOMAIN launches :
        /\ launches[n].timeoutHandle =>
             launches[n].status = "running" /\ launches[n].promise = "pending"
        /\ ~launches'[n].timeoutHandle => launches'[n].promise # "pending"
        /\ cpuTimeout(n) =>
             /\ launches'[n].worker = "terminated"
             /\ launches'[n].status = "killed"
             /\ launches'[n].promise = "rejected"
             /\ launches'[n].error = "CPU timeout"
             /\ launches[n].appId \notin DOMAIN apps'
             /\ \A m \in DOMAIN launches \ {n} : launches'[m] = launches[m] ]_vars

\* C11 witness: a launch was rejected by its CPU timer while a message of its
\* worker was on the way
C11_Witness ==
  \E n \in DOMAIN launches :
    /\ launches[n].promise = "rejected" /\ launches[n].error = "CPU timeout"
    /\ launches[n].worker = "terminated" /\ launches[n].mail # NoMail
    /\ launches[n].appId \notin DOMAIN apps

\* launch n runs: its worker has not been terminated and its promise is
\* pending
runningApp(n) ==
  launches[n].status = "running" /\ launches[n].promise = "pending"

\* C12: kill(appId) of a running app returns true, terminates the worker,
\* cancels the CPU timer, takes the app out of the table and rejects the
\* launch promise with 'was killed'; kill of an appId that is not running
\* returns false and changes nothing; after killAll the table is empty and no
\* launch promise is pending.
C12_KillSettlesRunningApp ==
  [][ /\ \A a \in tenants :
            kill(a) =>
              IF \E n \in DOMAIN launches :
                   launches[n].appId = a /\ runningApp(n)
                THEN /\ wasmRet'.ok
                     /\ a \notin DOMAIN apps'
                     /\ \A n \in DOMAIN launches :
                          (launches[n].appId = a /\ runningApp(n)) =>
                            /\ launches'[n].worker = "terminated"
                            /\ ~launches'[n].timeoutHandle
                            /\ launches'[n].promise = "rejected"
                            /\ launches'[n].error = "was killed"
                ELSE ~wasmRet'.ok /\ UNCHANGED <<apps, launches>>
      /\ killAll =>
            /\ apps' = EmptyMap
            /\ \A n \in DOMAIN launches : launches'[n].promise # "pending" ]_vars

\* ---- host calls

\* the worker of launch n is between the first and the last write of a request
workerWrites(n) ==
  launches[n].wpc \in {"wrote payload", "stored dataLen", "stored callType"}

\* the kernel is between the first and the last write of a response of n
kernelWrites(n) ==
  launches[n].kpc \in {"wrote response", "stored dataLen"}

\* host calls of launch n the kernel has not answered yet
inFlight(n) ==
  launches[n].hostMail
  + (IF launches[n].kpc \in {"idle", "stored READY"} THEN 0 ELSE 1)

\* C13: the state word of a buffer only moves IDLE -> PENDING -> READY ->
\* IDLE; the worker stores PENDING with the request, its length and its call
\* type in place; the kernel reads the request and writes the response only
\* while the state is PENDING and the worker is not writing; the worker reads
\* the response only in state READY, when the kernel has finished writing;
\* and at most one call per app is in flight.
C13_RingIsSerial ==
  [][ \A n \in DOMAIN launches :
        LET sab == launches[n].sharedBuffer
        IN
        /\ launches'[n].sharedBuffer.state # sab.state =>
             <<sab.state, launches'[n].sharedBuffer.state>> \in
               { <<STATE_IDLE, STATE_PENDING>>, <<STATE_PENDING, STATE_READY>>,
                 <<STATE_READY, STATE_IDLE>> }
        /\ storePending(n) =>
             /\ sab.data.kind = "request" /\ sab.dataLen = sab.data.len
             /\ sab.callType = callTypeOf(Head(launches[n].todo).import)
        /\ handleHostCall(n) =>
             sab.state = STATE_PENDING /\ ~workerWrites(n)
        /\ (writeResponse(n) \/ storeRespLen(n) \/ storeReady(n)) =>
             sab.state = STATE_PENDING /\ ~workerWrites(n)
        /\ readResponse(n) =>
             /\ sab.state = STATE_READY /\ ~kernelWrites(n)
             /\ sab.data.kind \in {"response", "error"}
        /\ inFlight(n) <= 1 ]_vars

\* C14: a request of more than 65524 bytes is refused in the worker with the
\* state still IDLE and nothing written, and the error reaches the caller; a
\* response that does not fit the payload region is answered with an error
\* reply that fits, which the kernel goes on to publish with READY.
C14_OversizedPayloadsRefused ==
  [][ \A n \in DOMAIN launches :
        /\ (writePayload(n) /\ Head(launches[n].todo).reqLen > 65524) =>
             /\ launches'[n].sharedBuffer = launches[n].sharedBuffer
             /\ launches[n].sharedBuffer.state = STATE_IDLE
             /\ launches'[n].mail.type = "error"
             /\ launches'[n].mail.message = "Host call payload too large"
        /\ (writeResponse(n) /\ launches[n].kres.ok
              /\ launches[n].kres.len + 10 > SAB_SIZE - SAB_DATA_START) =>
             /\ launches'[n].sharedBuffer.data.kind = "error"
             /\ launches'[n].sharedBuffer.data.len <= SAB_SIZE - SAB_DATA_START
             /\ launches'[n].kpc = "wrote response" ]_vars

-----------------------------------------------------------------------------
(* Properties of the functions *)

\* the capability the kernel requires for a call type ("none": no capability)
requiredFor(callType) ==
  IF callType \in {CALL.STORAGE_GET, CALL.STORAGE_SET, CALL.STORAGE_REMOVE,
                   CALL.STORAGE_KEYS} THEN "storage:local"
  ELSE "none"

\* C15 as stated: for each of the six call types the callback is invoked only
\* after a check against the granted set, so an app that was granted nothing
\* gets no callback invoked and an error response.
C15_EveryCallTypeGated ==
  (output # <<>> /\ input[1].callType \in 1..6
     /\ input[1].capabilities = {}) =>
    /\ output[1].result.invoked = "none"
    /\ output[1].response.kind = "error"

\* C15: for STORAGE_GET, STORAGE_SET, STORAGE_REMOVE and STORAGE_KEYS the
\* callback is invoked only if the app holds storage:local, and otherwise the
\* response is the error 'storage:local not granted' and no callback is
\* invoked; NOTIFY and CAP_REQUEST are dispatched to their callback whatever
\* the granted set is; any other call type is answered with the error
\* 'Unknown host call type' and no callback is invoked.
C15_StorageCallsGated ==
  output # <<>> =>
    LET caps == input[1].capabilities
        t == input[1].callType
        r == output[1].result
    IN IF t \notin 1..6
         THEN /\ r.invoked = "none"
              /\ ~r.ok /\ r.error = "Unknown host call type"
              /\ output[1].response.kind = "error"
       ELSE IF requiredFor(t) = "none" \/ requiredFor(t) \in caps
         THEN r.invoked = callbackOf(t)
         ELSE /\ r.invoked = "none"
              /\ ~r.ok /\ r.error = "storage:local not granted"
              /\ output[1].response.kind = "error"

\* C15 witness: a STORAGE_SET of an app without storage:local was answered
\* with an error
C15_Witness ==
  /\ output # <<>>
  /\ input[1].callType = CALL.STORAGE_SET
  /\ "storage:local" \notin input[1].capabilities
  /\ "network:http" \in input[1].capabilities
  /\ output[1].response.kind = "error"
  /\ output[1].result.invoked = "none"

\* the capabilities the imports of a module need and the app was not granted
missingCaps(program) ==
  { c \in {"storage:local", "network:http"} :
      /\ c \notin program.capabilities
      /\ \E i \in 1..Len(program.module.imports) :
           \/ c = "storage:local"
                /\ program.module.imports[i] \in StoragePrefixed
           \/ c = "network:http" /\ program.module.imports[i] = "fetch" }

\* C16: a module that imports a storage_* function without storage:local or
\* fetch without network:http is rejected with a message that names one of
\* its imports and the capability this import lacks, followed by 'not
\* granted', before its entry function is called; a module that imports only
\* notify and cap_request is not rejected.
C16_UngrantedImportRejected ==
  output # <<>> =>
    LET p == input[1]
        refusals == { notGranted(name) : name \in ImportNames }
    IN /\ missingCaps(p) # {} =>
            /\ output[1].type = "error"
            /\ \E i \in 1..Len(p.module.imports) :
                 /\ importToCap(p.module.imports[i]) \in missingCaps(p)
                 /\ output[1].message = notGranted(p.module.imports[i])
            /\ prepare(p) # "ok"
       /\ missingCaps(p) = {} => output[1].message \notin refusals
       /\ SeqRange(p.module.imports) \subseteq {"notify", "cap_request"} =>
            output[1].type = "result"

\* C16 witness: a module importing notify and then fetch, launched with
\* storage:local only, was rejected for network:http
C16_Witness ==
  /\ output # <<>>
  /\ input[1].module.imports = <<"notify", "fetch">>
  /\ input[1].capabilities = {"storage:local"}
  /\ output[1].message =
       "Module imports llmos.fetch but capability 'network:http' not granted"

\* the encoded maximum is greater than limit, as an unsigned integer
RECURSIVE Saturated(_, _)
Saturated(enc, limit) ==
  IF enc = <<>> THEN 0
  ELSE LET high == Saturated(Tail(enc), limit)
           v == high * 128 + (Head(enc) % 128)
       IN IF v > limit THEN limit + 1 ELSE v

Exceeds(enc, limit) == Saturated(enc, limit) > limit

\* C17: validateMemorySection accepts a module exactly when every memory of
\* its memory section has a maximum and the maximum is at most the limit; a
\* memory without a maximum is reported as unbounded.
C17_OnlyBoundedMemoryAccepted ==
  output # <<>> =>
    LET ms == input[1].maxima
        limit == input[1].maxPagesAllowed
    IN /\ output[1] = "ok" <=>
            \A i \in 1..Len(ms) : ms[i] # <<>> /\ ~Exceeds(ms[i], limit)
       /\ (ms # <<>> /\ ms[1] = <<>>) => output[1] = "unbounded memory"

\* token i of the line is text of a capabilities comment or the SDK marker
exemptText(line, i) ==
  \/ line[i] = "// LLM-OS SDK"
  \/ \E a \in 1..i, b \in i..Len(line) :
       /\ line[a] = "<!--" /\ line[b] = "-->"
       /\ \E c \in a..b : line[c] = "capabilities"

\* a CRITICAL rule matches text of the code that is not exempt
criticalText(code) ==
  \E l \in 1..Len(code), r \in 1..Len(RULES) :
    /\ RULES[r].severity = "CRITICAL"
    /\ \E i \in matchesIn(code[l], RULES[r].pattern) : ~exemptText(code[l], i)

\* C19: passed is true exactly when criticalCount is 0; code in which a
\* CRITICAL rule matches text other than the capabilities comment and the SDK
\* marker does not pass, whatever else is on the line; code in which no
\* CRITICAL rule matches passes, whatever its warnings.
C19_CriticalNeverPasses ==
  output # <<>> =>
    /\ output[1].passed <=> output[1].criticalCount = 0
    /\ criticalText(input[1]) => ~output[1].passed
    /\ (\A l \in 1..Len(input[1]) :
          matchesIn(input[1][l], "eval(") = {}) => output[1].passed

\* C18: an entry enters the registry only with code for which analyze reports
\* no CRITICAL finding, and an image is built only from a recipe for which
\* analyzeDockerfile reports none; a refused request answers 400.
C18_CriticalNeverBuiltOrPublished ==
  [][ /\ \A h \in DOMAIN registry' \ DOMAIN registry :
            analyze(registry'[h].code).passed
      /\ \A r \in images' \ images : analyzeDockerfile(r).passed
      /\ \A p \in Prompts, c \in Snippets :
            ((apiRegistryPublish([prompt |-> p, code |-> c])
                \/ generateApps(p, c))
              /\ ~analyze(c).passed) =>
              serverRet'.status = 400 /\ UNCHANGED registry ]_vars

\* C20: publishing code whose hash is not in the registry adds exactly one
\* entry, with launches 1, and returns existing=false; publishing code whose
\* hash is in the registry returns existing=true with that hash, adds no
\* entry and only increases the entry's launches by 1; publishing code that
\* differs from the code of every entry adds an entry under a new hash.
C20_PublishIdempotentByContent ==
  [][ \A p \in Prompts, c \in Snippets :
        apiRegistryPublish([prompt |-> p, code |-> c]) =>
          LET h == contentHash(c)
          IN /\ serverRet'.hash = h
             /\ h \notin DOMAIN registry =>
                  /\ ~serverRet'.existing
                  /\ DOMAIN registry' = DOMAIN registry \cup {h}
                  /\ registry'[h].launches = 1 /\ registry'[h].code = c
                  /\ \A k \in DOMAIN registry : registry'[k] = registry[k]
             /\ h \in DOMAIN registry =>
                  /\ serverRet'.existing
                  /\ registry' = [registry EXCEPT ![h].launches = @ + 1]
             /\ (\A k \in DOMAIN registry : registry[k].code # c) =>
                  /\ ~serverRet'.existing
                  /\ h \notin DOMAIN registry
                  /\ registry'[h].code = c ]_vars

\* C21: every entry of the registry is stored under its hash field, and its
\* hash field is the content hash of its code.
C21_EntriesKeyedByContentHash ==
  \A h \in DOMAIN registry :
    registry[h].hash = h /\ registry[h].hash = contentHash(registry[h].code)

\* what storageGet(a, k) returns
getValue(a, k) ==
  IF k \in DOMAIN storeView(a) THEN storeView(a)[k] ELSE Null

\* a step that may change what k holds for app a: a remove of k, a clear or
\* delete of a, a successful set of k or a successful import with k
overwrites(a, k) ==
  \/ storageRemove(a, k) \/ storageClear(a) \/ storageDelete(a)
  \/ \E v \in ValueLens : storageSet(a, k, v) /\ storeRet'.ok
  \/ \E d \in ImportObjects :
       k \in DOMAIN d /\ storageImport(a, d) /\ storeRet'.ok

\* C22: while the store of app a holds v under k, storageGet(a, k) returns v
\* after every step that is not a remove of k, a clear or delete of a, or a
\* successful set or import of k: reads, timers, storageFlushAll, sets and
\* imports refused for quota and the operations of other apps leave it.
C22_SetValueStaysUntilOverwritten ==
  [][ \A a \in clients, k \in keyspace :
        (/\ a \in DOMAIN cache /\ k \in DOMAIN cache[a].data
         /\ ~overwrites(a, k) /\ ~processRestart)
          => getValue(a, k)' = getValue(a, k) ]_vars

\* a storage operation on app a, or a flush timer of a
operatesOn(a) ==
  \/ \E k \in keyspace : storageGet(a, k) \/ storageRemove(a, k)
  \/ \E k \in keyspace, v \in ValueLens : storageSet(a, k, v)
  \/ \E d \in ImportObjects : storageImport(a, d)
  \/ storageClear(a) \/ storageDelete(a)
  \/ saveTimerFires(a) \/ strayTimerFires(a)

\* C23: a storage operation on app a or a flush of a changes neither what
\* the reads of another app b return nor removes b's persisted data.
C23_AppsAreIsolated ==
  [][ \A a, b \in clients :
        (a # b /\ operatesOn(a) /\ ~operatesOn(b)) =>
          /\ storeView(b)' = storeView(b)
          /\ appDir(b) \in DOMAIN disk => appDir(b) \in DOMAIN disk' ]_vars

\* the directories whose content differs between two states of the disk
touched(before, after) ==
  { d \in DOMAIN before \cup DOMAIN after :
      \/ d \notin DOMAIN before \/ d \notin DOMAIN after
      \/ before[d] # after[d] }

\* directory d is the directory named s under the data root, or lies in it
\* (the empty name is the data root itself)
Under(d, s) == s = <<>> \/ d = s

\* C24: the directory of an appId has the length of the appId and only
\* characters of [A-Za-z0-9_-], each safe character kept; an operation on
\* an app or a flush of it creates, writes and removes only under the
\* directory of that app, and storageFlushAll only under the directories of
\* the cached apps.
C24_PathsStayInAppDirectory ==
  [][ /\ \A a \in clients :
            /\ Len(appDir(a)) = Len(a)
            /\ \A i \in 1..Len(a) :
                 /\ appDir(a)[i] \in SafeChars
                 /\ a[i] \in SafeChars => appDir(a)[i] = a[i]
            /\ operatesOn(a) =>
                 \A d \in touched(disk, disk') : Under(d, appDir(a))
      /\ storageFlushAll =>
            \A d \in touched(disk, disk') :
              \E a \in DOMAIN cache : Under(d, appDir(a)) ]_vars

\* C24 witness: the store of the appId '../' has been written to the
\* directory '___'
C24_Witness ==
  /\ <<"_", "_", "_">> \in DOMAIN disk
  /\ "k" \in DOMAIN disk[<<"_", "_", "_">>]
  /\ <<".", ".", "/">> \in DOMAIN cache


\* how far along building -> starting -> running -> stopped | failed a status is
statusRank(st) ==
  CASE st = "building" -> 0
    [] st = "starting" -> 1
    [] st = "running" -> 2
    [] OTHER -> 3

\* C25: the status of a container process starts as 'starting', moves only
\* forward along building -> starting -> running -> stopped | failed, and
\* never changes again once it is 'stopped' or 'failed'
C25_StatusOnlyMovesForward ==
  [][\A c \in DOMAIN infoStatus' :
       IF c \in DOMAIN infoStatus
         THEN \/ infoStatus'[c] = infoStatus[c]
              \/ statusRank(infoStatus[c]) < statusRank(infoStatus'[c])
         ELSE infoStatus'[c] = "starting"]_vars

\* the stopContainer calls that the timeout of launch n begins in this step
begunBy(n) == {r \in stopping' \ stopping : r.call = 0 - n}

\* C26: when the 30-minute timeout of a launch fires, a stop begins exactly
\* when the container of that launch is still tracked, the container stopped
\* is that of the timer's own launch, never that of a later launch of the
\* same appId, and the stop frees its port when it ends
C26_TimeoutStopsItsOwnLaunch ==
  [][/\ \A t \in timers \ timers' :
          t.kind = "wall" =>
            IF \E a \in DOMAIN processes : processes[a].containerId = t.info
              THEN \E r \in begunBy(t.info) : r.proc.containerId = t.info
              ELSE begunBy(t.info) = {}
     /\ \A r \in stopping \ stopping' :
          (r.call < 0 /\ r.pc = "remove") => r.proc.port \notin allocatedPorts'
    ]_vars

\* the launch route has just sent a create request
created == output' # <<>> /\ nextCall' # nextCall

\* the settings of a create body that no launch may change
hardening(b) ==
  <<b.Memory, b.MemorySwap, b.NanoCpus, b.PidsLimit, b.ReadonlyRootfs,
    b.CapDrop, b.SecurityOpt>>

\* C27: a container is created with a network other than 'none' only if
\* process:network is granted to its app, with a bind, of <data_root>/<appId>,
\* only if process:volume is granted, with the kernel's ANTHROPIC_API_KEY
\* only if api:anthropic is granted, and with the same memory, CPU, PID,
\* read-only, capability-drop and no-new-privileges settings every time
C27_ContainerPrivilegesNeedGrants ==
  [][created =>
       LET b == output'.body
           a == output'.appId
       IN /\ b.NetworkMode # "none" => checkCapability(a, "process:network")
          /\ b.Binds # <<>> =>
               /\ checkCapability(a, "process:volume")
               /\ b.Binds = <<cwd \o "/data/" \o a \o ":/app/data">>
          /\ ("ANTHROPIC_API_KEY=" \o apiKey) \in SeqRange(b.Env) =>
               checkCapability(a, "api:anthropic")
          /\ hardening(b) =
               <<512 * 1024 * 1024, 512 * 1024 * 1024, 1000000000, 64, TRUE,
                 <<"ALL">>, <<"no-new-privileges">> >>
    ]_vars

-----------------------------------------------------------------------------
(* Gateway properties *)

\* the available providers other than the one that failed
others(failed) ==
  {n \in SeqRange(providers) : n # failed /\ n \in available}

\* C28: when the provider generate selected fails, generate calls one other
\* provider, the configured fallback if it is available and is not the one
\* that failed, else some other available provider; with no other provider
\* available, or when the second provider fails too, the caller gets the
\* error; no generate call invokes providers more than twice
C28_OneFallbackThenError ==
  [][/\ Len(generation'.invoked) <= 2
     /\ Len(gatewayRet'.invoked) <= 2
     /\ (generation.pc = "first" /\ generation' # generation
           /\ gatewayRet'.kind # "code") =>
          IF others(generation.providerName) = {}
            THEN /\ gatewayRet'.kind = "error"
                 /\ gatewayRet'.invoked = <<generation.providerName>>
                 /\ generation'.pc = "idle"
            ELSE /\ generation'.pc = "fallback"
                 /\ generation'.invoked =
                      <<generation.providerName, generation'.providerName>>
                 /\ generation'.providerName
                      \in others(generation.providerName)
                 /\ routing.fallback \in others(generation.providerName)
                      => generation'.providerName = routing.fallback
     /\ (generation.pc = "fallback" /\ generation' # generation) =>
          /\ generation'.pc = "idle"
          /\ gatewayRet'.kind \in {"code", "error"}
          /\ gatewayRet'.invoked = generation.invoked
    ]_vars

\* the fallback provider was called and failed too
C28_Witness ==
  /\ gatewayRet.kind = "error"
  /\ Len(gatewayRet.invoked) = 2
  /\ gatewayRet.invoked[2] = routing.fallback

\* C29: a generate call with a confidence below 0.45 and without
\* options.force returns a clarification request of at most 3 questions and
\* invokes no provider; a provider is invoked only for a score of at least
\* 0.45 or with force set
C29_LowConfidenceAsksInsteadOfGenerating ==
  /\ gatewayRet.kind = "needsClarification" =>
       /\ Len(gatewayRet.questions) \in 1..3
       /\ gatewayRet.invoked = <<>>
       /\ generation.pc = "idle"
  /\ (/\ gatewayRet.kind # "none"
      /\ scoreConfidence(gatewayRet.prompt) < 45
      /\ gatewayRet.force = "undefined") =>
       gatewayRet.kind = "needsClarification"
  /\ generation.pc # "idle" =>
       \/ scoreConfidence(generation.prompt) >= 45
       \/ generation.force # "undefined"
  /\ gatewayRet.invoked # <<>> =>
       \/ scoreConfidence(gatewayRet.prompt) >= 45
       \/ gatewayRet.force # "undefined"

\* a prompt below 0.45 was answered with three questions
C29_Witness ==
  /\ gatewayRet.kind = "needsClarification"
  /\ scoreConfidence(gatewayRet.prompt) < 45
  /\ gatewayRet.force = "undefined"
  /\ Len(gatewayRet.questions) = 3

-----------------------------------------------------------------------------
(* Pause and resume *)

\* an interval that calls tick(id) is armed
activeTimer(id) == timer[id] \/ leaked[id] > 0

\* C30: while the scheduler is paused no timer fire starts a handler,
\* whatever enableTask and registerTask calls are made; pause() leaves a
\* running handler running, and the handler's result is recorded when it
\* ends; after resume() exactly the enabled tasks have an active timer
C30_PauseHoldsTimersUntilResume ==
  [][/\ paused =>
          \A id \in TaskIds :
            handlers'[id] > handlers[id] => startedBy'[id] # "tick"
     /\ (~paused /\ paused') =>
          UNCHANGED <<running, runningTaskId, handlers, startedBy>>
     /\ paused =>
          \A id \in TaskIds :
            handlers'[id] < handlers[id] =>
              /\ taskState'[id].runCount = taskState[id].runCount + 1
              /\ taskState'[id].history # <<>>
     /\ (paused /\ ~paused') =>
          \A id \in TaskIds :
            activeTimer(id)' <=> (id \in tasks' /\ taskState'[id].enabled)
    ]_vars

-----------------------------------------------------------------------------
(* Daily budget *)

\* llmCallsToday >= dailyBudget, counted on the current date
spentToday(id) ==
  ~taskState[id].staleDate /\ taskState[id].llmCallsToday >= DailyBudget

\* a runNow(id) step that found the budget spent left the counters alone
refusedForBudget(id) ==
  /\ schedRet' = "budget"
  /\ taskState'[id].runCount = taskState[id].runCount
  /\ taskState'[id].history = taskState[id].history
  /\ taskState'[id].consecutiveErrors = taskState[id].consecutiveErrors

\* what C31 says of the budget guard, but for the result of a runNow made
\* while the budget is spent
budgetGuard(id) ==
  /\ (id \in RequiresLLM /\ spentToday(id)) => handlers'[id] <= handlers[id]
  /\ (taskState[id].staleDate /\ ~taskState'[id].staleDate)
        => taskState'[id].llmCallsToday = IF trackLLMCall(id) THEN 1 ELSE 0
  /\ (taskState[id].staleDate /\ runNow(id)) => schedRet' # "budget"
  /\ (id \notin RequiresLLM /\ runNow(id)) => schedRet' # "budget"
  /\ (id \notin RequiresLLM /\ spentToday(id) /\ ~running /\ runNow(id))
        => handlers'[id] = handlers[id] + 1

-----------------------------------------------------------------------------
(* Activity deferral *)

\* a request reached an endpoint of the scheduler in this step: runNow
\* returned or started a handler, or pause, resume, enableTask or disableTask
\* took effect
dispatched ==
  \/ schedRet' \in {"unknown", "busy", "budget", "pending"}
  \/ paused' # paused
  \/ /\ handlers' = handlers
     /\ \E id \in TaskIds : taskState'[id].enabled # taskState[id].enabled

\* C32: a timer tick starts a handler only when deferMs or more have passed
\* since the last recordActivity, and every API request records its activity
\* before its endpoint runs (idleTicks = 0: less than deferMs since the last
\* request)
C32_TicksDeferAfterApiActivity ==
  [][ /\ \A id \in TaskIds :
           (handlers'[id] > handlers[id] /\ startedBy'[id] = "tick")
              => idleTicks >= 1
      /\ dispatched => idleTicks' = 0 ]_vars

\* C32 witness: a tick started a handler that is still running when an API
\* request arrives, and an enabled task with an armed timer is held back
C32_Witness ==
  /\ idleTicks = 0
  /\ \E id \in tasks : handlers[id] = 1 /\ startedBy[id] = "tick"
  /\ \E id \in tasks : timer[id] /\ taskState[id].enabled /\ handlers[id] = 0

-----------------------------------------------------------------------------
(* Handler errors and counters *)

\* C33: when the handler of an execution throws or rejects, runNow resolves
\* with {success: false, error} and no rejection is left unhandled,
\* errorCount and consecutiveErrors each grow by one, lastError is stored and
\* one failed entry is added to the history; after that execution, and after
\* every execution that succeeds, the concurrency lock is free
C33_HandlerErrorsAreCaptured ==
  [][ \A id \in TaskIds :
        /\ (\E o \in {"throw", "throwNullish"} : settle(id, o))
             => /\ schedRet' = IF startedBy[id] = "runNow" THEN "failed" ELSE "none"
                /\ taskState'[id].errorCount = taskState[id].errorCount + 1
                /\ taskState'[id].consecutiveErrors
                     = taskState[id].consecutiveErrors + 1
                /\ taskState'[id].lastError
                /\ taskState'[id].history = pushHistory(taskState[id].history, FALSE)
                /\ ~running' /\ runningTaskId' = NoTask
        /\ handlers'[id] < handlers[id] => ~running' /\ runningTaskId' = NoTask
    ]_vars

\* C40: every task has runCount = successCount + errorCount, and every
\* execution that ends adds one to exactly one of successCount and errorCount
C40_RunsAreSuccessesPlusErrors ==
  [][ \A id \in TaskIds :
        /\ taskState'[id].runCount
             = taskState'[id].successCount + taskState'[id].errorCount
        /\ handlers'[id] < handlers[id]
             => \/ /\ taskState'[id].successCount = taskState[id].successCount + 1
                   /\ taskState'[id].errorCount = taskState[id].errorCount
                \/ /\ taskState'[id].successCount = taskState[id].successCount
                   /\ taskState'[id].errorCount = taskState[id].errorCount + 1
    ]_vars

-----------------------------------------------------------------------------
(* Profile properties *)

\* C34: after solidify() the profile mode is 'solidified' and isSolidified()
\* is true, with or without a profile.yaml beforehand; after goEphemeral()
\* the mode is 'ephemeral'; loadSnapshotApp and loadSnapshotShell return an
\* artifact only while the mode is 'solidified', and null whenever it is
\* 'ephemeral'
C34_ModeFollowsSolidifyAndGoEphemeral ==
  [][ /\ profileRet'.op = "solidify"
           => loadProfile' = "solidified" /\ isSolidified'
      /\ profileRet'.op = "goEphemeral" => loadProfile' = "ephemeral"
      /\ profileRet'.op \in {"loadSnapshotApp", "loadSnapshotShell"}
           => /\ profileRet'.value # "null" => loadProfile = "solidified"
              /\ loadProfile = "ephemeral" => profileRet'.value = "null"
    ]_vars

-----------------------------------------------------------------------------
(* Shutdown *)

\* C35: when the process exits on SIGINT or SIGTERM, its handler has flushed
\* the storage, persisted the scheduler state and requested a stop for every
\* tracked container, in this order: no cache entry is dirty and every
\* tracked container has a stop call in progress
C35_ShutdownFlushesPersistsStops ==
  ~alive =>
    /\ \A a \in DOMAIN cache : ~cache[a].dirty
    /\ exitLog = <<"storageFlushAll", "persist", "stopAll", "process.exit">>
    /\ \A a \in DOMAIN processes : \E c \in stopping : c.appId = a

-----------------------------------------------------------------------------
(* Granted and declared capabilities *)

\* C36: the capabilities granted to an app are among those its generated
\* code declares (the default when the comment is absent) and among the
\* valid capability types; one that was only proposed from the keywords of
\* the prompt is not granted
C36_GrantedAreDeclared ==
  \A a \in DOMAIN appCaps :
    /\ appCaps[a] \subseteq CAPABILITY_TYPES
    /\ a \in DOMAIN appResults =>
         appCaps[a] \subseteq SeqRange(appResults[a].declared)

\* C37: no token string other than an issued one verifies as valid: a token
\* one character away from an issued token, or a fabricated token with an
\* all-zero signature, makes verifyToken return valid = false with error
\* invalid_signature, or malformed when it no longer has three segments.
C37_OnlyIssuedTokensVerify ==
  output # <<>> /\ output[1].presented # input[1].token
    => /\ ~ output[1].result.valid
       /\ output[1].result.error
            = (IF Len(split(output[1].presented)) = 3
               THEN "invalid_signature" ELSE "malformed")

\* the LLM router gives no classification: it has no URL or no model, the
\* request fails, times out or is answered with a status that is not OK, or
\* the answer is not valid JSON with a valid type
llmFails(in) ==
  \/ in.config.ollamaUrl = ""
  \/ in.config.routerModel = "" /\ in.config.best = Absent
       /\ in.config.model = ""
  \/ in.answer.fetch # "object"
  \/ in.answer.parsed.type \notin {"iframe", "process"}

\* C38: routePrompt always returns a well-formed classification (type iframe
\* or process, complexity simple, medium or complex, and a template, a model,
\* a title and a source); whenever the LLM router has no model, is
\* unreachable, times out, answers with a status that is not OK or returns
\* output that is not valid JSON with a valid type, it is the result of the
\* regex classifier, with source 'regex'.
C38_RouterFallsBackToRegex ==
  output # <<>>
    => /\ output[1] # NoClassification
       /\ {"type", "complexity", "template", "model", "title", "source"}
            \subseteq DOMAIN output[1]
       /\ output[1].type \in {"iframe", "process"}
       /\ output[1].complexity \in {"simple", "medium", "complex"}
       /\ llmFails(input[1])
            => /\ output[1] = regexRoute(input[1].prompt)
               /\ output[1].source = "regex"

\* C38 witness: Ollama did not answer the router and the regex classifier
\* gave a process app from a template with the model the prompt names
C38_Witness ==
  /\ output # <<>>
  /\ input[1].config.ollamaUrl # ""
  /\ input[1].answer.fetch = "unreachable"
  /\ output[1].source = "regex"
  /\ output[1].type = "process"
  /\ output[1].template = "ssh"
  /\ output[1].model = "opus"

\* the ports held by the tracked processes
heldPorts == {processes[a].port : a \in DOMAIN processes} \ {NoPort}

\* C39: whenever no launchContainer or stopContainer call is in progress, the
\* allocated ports are exactly the ports held by the tracked processes, and
\* no two tracked processes hold the same port.
C39_AllocatedPortsAreHeldPorts ==
  launching = {} /\ stopping = {}
    => /\ allocatedPorts = heldPorts
       /\ \A a, b \in DOMAIN processes :
            a # b /\ processes[a].port # NoPort
              => processes[a].port # processes[b].port

====
